---- MODULE Spec2Model ----
(***************************************************************************)
(* A model of cobbler: the daemon's upgrade gate and its two HTTP handlers *)
(* (src/daemon/src/main.rs) and the operator tool's discovery collectors   *)
(* (src/cli/src/main.rs).                                                  *)
(*                                                                         *)
(* The daemon runs its handlers on a multi-threaded runtime: each handler  *)
(* is a sequence of steps (the availability probe forks a process, the     *)
(* compare-and-exchange is one atomic step) and the steps of different     *)
(* requests and of the spawned background tasks interleave freely.         *)
(***************************************************************************)
EXTENDS Integers, Sequences, FiniteSets, TLC

\* ---------------------------------------------------------------- bounds
NumUpgradeReqs == 2
NumStatusReqs == 1
NumNames == 2
MaxEvents == 3
MaxTimeout == 2
MaxLen == 4
MaxArgs == 1
MaxInFlight == 2

UpgradeReqs == 1..NumUpgradeReqs
StatusReqs == 1..NumStatusReqs

\* ------------------------------------------------------- daemon constants
StatusOK == 200
PRECONDITION_FAILED == 412
INTERNAL_SERVER_ERROR == 500

MsgNotDebian == "the system is not a Debian-based Linux system"
MsgRunning == "a full upgrade is currently running"
MsgTriggered == "full upgrade triggered"
MsgUpToDate == "System is up to date"

\* The outcomes of Command::new("apt").args(["full-upgrade","-y"]).output():
\* Ok with a success status, Ok with a failure status, Err (not executed).
CommandOutcomes == {"success", "failure", "exec_error"}

\* What the package cache can report as outdated at the time of a request.
PossibleUpdates == {<<>>, <<"pkg1">>}

VARIABLES
    is_upgrading,   \* AppState.is_upgrading, the gate (AtomicBool)
    upg,            \* per upgrade-trigger request: handler position and response
    task,           \* per upgrade-trigger request: the background task it spawned
    stat,           \* per status request: handler position, locals and response
    \* the operator tool (src/cli/src/main.rs), one run of one command
    cmd,            \* "discover" (run_discover) or "status" (run_status --all)
    timeout,        \* the collector's timeout T, in ticks
    update_config,  \* discover --update-config
    config,         \* the configuration file's nodes
    cpc,            \* position of the command
    now,            \* the clock read by Instant::now()
    deadline,       \* Instant::now() + timeout, set when collection starts
    seen,           \* the collector's HashSet
    header_printed, \* run_discover: the table header is out
    table,          \* run_discover: the rows written to the table, in order
    discovered_addresses, \* run_discover: addr:port of the rows, in order
    targets,        \* discover_targets: the targets collected, in order
    loop_exit,      \* how the collection loop ended
    result,         \* the command's Result, "running" until it returns
    nrecv,          \* events received so far
    first_info,     \* per identity, the info of its first resolved event
    target_from,    \* per collected target, the identity it came from
    config_saved,   \* save_config has written the file
    \* resolve_url (src/cli/src/main.rs), applied to one string
    raw,            \* the target string handed to resolve_url
    url,            \* the base URL it returned, <<>> before the call
    \* run_status and run_packages (src/cli/src/main.rs)
    discover_all,   \* status --all
    config_exists,  \* resolve_config_path: a configuration file was found or set
    dispatch_targets, \* run_status / run_packages: the `targets` vector
    requests,       \* the requests handed to send(), in order
    outcomes,       \* what send() returned for each of them
    tw,             \* the lines written to the report's TabWriter
    stdout,         \* the lines that reached standard output
    \* the daemon's main and shutdown_signal (src/daemon/src/main.rs)
    mdns_daemon,    \* Option<ServiceDaemon>: "Some", "None", "shutdown"
    ctrl_c,         \* the ctrl_c branch of shutdown_signal
    terminate,      \* the terminate branch of shutdown_signal
    server,         \* axum::serve: "serving", "draining", "returned"
    in_flight,      \* requests accepted and not yet answered
    delivered,      \* the signals delivered to the process
    exited,         \* main has returned
    \* the daemon's port selection (src/daemon/src/main.rs, main)
    cli_port,       \* cli.port: <<>> for None, <<p>> for Some(p)
    in_use,         \* the ports on which TcpListener::bind fails
    http_port,      \* the u16 `port` handed to bind
    bpc,            \* "start", "hunting", "listening", "failed"
    binds           \* calls of TcpListener::bind so far

daemonVars == <<is_upgrading, upg, task, stat>>

cliVars == <<cmd, timeout, update_config, config, cpc, now, deadline, seen,
             header_printed, table, discovered_addresses, targets, loop_exit,
             result, nrecv, first_info, target_from, config_saved>>

resolverVars == <<raw, url>>

\* What the daemon's handlers and the collectors leave alone.
fanVars == <<discover_all, config_exists, dispatch_targets, requests, outcomes,
             tw, stdout>>

shutdownVars == <<mdns_daemon, ctrl_c, terminate, server, in_flight, delivered,
                  exited>>

portVars == <<cli_port, in_use, http_port, bpc, binds>>

otherVars == <<resolverVars, fanVars, shutdownVars, portVars>>

vars == <<daemonVars, cliVars, otherVars>>

NoResponse == [status |-> 0, message |-> "", updates |-> <<>>, is_upgrading |-> FALSE]

\* ------------------------------------------------------------------ Init
DaemonInit ==
    /\ is_upgrading = FALSE
    /\ upg = [r \in UpgradeReqs |->
                [pc |-> "idle", avail |-> "unknown", status |-> 0, message |-> "",
                 gate_on_arrival |-> FALSE, concurrent |-> FALSE]]
    /\ task = [r \in UpgradeReqs |-> [st |-> "none", outcome |-> "none"]]
    /\ stat = [s \in StatusReqs |->
                [pc |-> "idle", is_upgrading |-> FALSE, avail |-> "unknown",
                 resp |-> NoResponse, gate_seen |-> {}]]

\* A status request is in progress between its first statement and its response.
StatusActive(s) == stat[s].pc \in {"probe", "enumerate"}

\* Every gate transition is recorded for the status requests in progress
\* (gate_seen: the gate values that occurred during the request's lifetime).
NoteGate(v) ==
    stat' = [s \in StatusReqs |->
                IF StatusActive(s)
                THEN [stat[s] EXCEPT !.gate_seen = @ \cup {v}]
                ELSE stat[s]]

\* ------------------------------------------------- full_upgrade_handler
\* An upgrade-trigger request is being handled: routed, not yet answered.
UpgradeActive(r) == upg[r].pc \in {"probe", "cas", "spawn"}

\* The request is routed to the handler (requests are numbered in the order
\* in which they arrive). gate_on_arrival and concurrent record what held at
\* that instant: the gate value, and whether another trigger was being handled.
UpgradeArrive(r) ==
    /\ UNCHANGED <<cliVars, otherVars>>
    /\ upg[r].pc = "idle"
    /\ IF r = 1 THEN TRUE ELSE upg[r - 1].pc # "idle"
    /\ upg' = [upg EXCEPT ![r].pc = "probe",
                          ![r].gate_on_arrival = is_upgrading,
                          ![r].concurrent = \E q \in UpgradeReqs : UpgradeActive(q)]
    /\ UNCHANGED <<is_upgrading, task, stat>>

\* is_apt_available(): forks `apt --version`, then `apt-get --version`; the
\* result is the environment's answer at the time of this request.
is_apt_available == BOOLEAN

\* Mutant: the gate is taken before the availability check and released on
\* the unavailable path.
UpgradeProbeTouchesGate(r) ==
    /\ UNCHANGED <<cliVars, otherVars>>
    /\ upg[r].pc = "probe"
    /\ \E avail \in is_apt_available :
          IF avail
          THEN /\ upg' = [upg EXCEPT ![r].pc = "cas", ![r].avail = "yes"]
               /\ UNCHANGED <<is_upgrading, stat>>
          ELSE /\ upg' = [upg EXCEPT ![r].pc = "done", ![r].avail = "no",
                                     ![r].status = PRECONDITION_FAILED,
                                     ![r].message = MsgNotDebian]
               /\ is_upgrading' = FALSE
               /\ NoteGate(FALSE)
    /\ UNCHANGED task

\* if !is_apt_available() { return 412 }
UpgradeProbe(r) ==
    /\ UNCHANGED <<cliVars, otherVars>>
    /\ upg[r].pc = "probe"
    /\ \E avail \in is_apt_available :
          upg' = [upg EXCEPT ![r] =
                    IF avail
                    THEN [@ EXCEPT !.pc = "cas", !.avail = "yes"]
                    ELSE [@ EXCEPT !.pc = "done", !.avail = "no",
                                   !.status = PRECONDITION_FAILED,
                                   !.message = MsgNotDebian]]
    /\ UNCHANGED <<is_upgrading, task, stat>>

\* Mutant: check-then-set, the check made on the value seen when the request
\* came in instead of atomically with the set.
UpgradeCasStaleCheck(r) ==
    /\ UNCHANGED <<cliVars, otherVars>>
    /\ upg[r].pc = "cas"
    /\ IF upg[r].gate_on_arrival = FALSE
       THEN /\ is_upgrading' = TRUE
            /\ upg' = [upg EXCEPT ![r].pc = "spawn"]
            /\ NoteGate(TRUE)
       ELSE /\ upg' = [upg EXCEPT ![r].pc = "done",
                                  ![r].status = PRECONDITION_FAILED,
                                  ![r].message = MsgRunning]
            /\ UNCHANGED <<is_upgrading, stat>>
    /\ UNCHANGED task

\* Mutant: swap(true) with the previous value ignored: every request acquires.
UpgradeCasNoCheck(r) ==
    /\ UNCHANGED <<cliVars, otherVars>>
    /\ upg[r].pc = "cas"
    /\ is_upgrading' = TRUE
    /\ upg' = [upg EXCEPT ![r].pc = "spawn"]
    /\ NoteGate(TRUE)
    /\ UNCHANGED task

\* Mutant: the rejected request clears the gate on its way out.
UpgradeCasRejectClears(r) ==
    /\ UNCHANGED <<cliVars, otherVars>>
    /\ upg[r].pc = "cas"
    /\ IF is_upgrading = FALSE
       THEN /\ is_upgrading' = TRUE
            /\ upg' = [upg EXCEPT ![r].pc = "spawn"]
            /\ NoteGate(TRUE)
       ELSE /\ upg' = [upg EXCEPT ![r].pc = "done",
                                  ![r].status = PRECONDITION_FAILED,
                                  ![r].message = MsgRunning]
            /\ is_upgrading' = FALSE
            /\ NoteGate(FALSE)
    /\ UNCHANGED task

\* compare_exchange(false, true, SeqCst, SeqCst): one atomic step.
UpgradeCas(r) ==
    /\ UNCHANGED <<cliVars, otherVars>>
    /\ upg[r].pc = "cas"
    /\ IF is_upgrading = FALSE
       THEN /\ is_upgrading' = TRUE
            /\ upg' = [upg EXCEPT ![r].pc = "spawn"]
            /\ NoteGate(TRUE)
       ELSE /\ upg' = [upg EXCEPT ![r].pc = "done",
                                  ![r].status = PRECONDITION_FAILED,
                                  ![r].message = MsgRunning]
            /\ UNCHANGED <<is_upgrading, stat>>
    /\ UNCHANGED task

\* Mutant: the handler answers 200 and hands nothing to the runtime.
UpgradeSpawnForgetsTask(r) ==
    /\ UNCHANGED <<cliVars, otherVars>>
    /\ upg[r].pc = "spawn"
    /\ upg' = [upg EXCEPT ![r].pc = "done",
                          ![r].status = StatusOK,
                          ![r].message = MsgTriggered]
    /\ UNCHANGED <<is_upgrading, task, stat>>

\* Mutant: the handler awaits the task it spawned and answers when it is over.
UpgradeSpawnAwaits(r) ==
    /\ UNCHANGED <<cliVars, otherVars>>
    /\ upg[r].pc = "spawn"
    /\ IF task[r].st = "none"
       THEN /\ task' = [task EXCEPT ![r].st = "running"]
            /\ UNCHANGED upg
       ELSE /\ task[r].st = "finished"
            /\ upg' = [upg EXCEPT ![r].pc = "done",
                                  ![r].status = StatusOK,
                                  ![r].message = MsgTriggered]
            /\ UNCHANGED task
    /\ UNCHANGED <<is_upgrading, stat>>

\* tokio::spawn(...) hands the upgrade to a detached task; the handler returns
\* 200 without awaiting it.
UpgradeSpawn(r) ==
    /\ UNCHANGED <<cliVars, otherVars>>
    /\ upg[r].pc = "spawn"
    /\ task' = [task EXCEPT ![r].st = "running"]
    /\ upg' = [upg EXCEPT ![r].pc = "done",
                          ![r].status = StatusOK,
                          ![r].message = MsgTriggered]
    /\ UNCHANGED <<is_upgrading, stat>>

\* Mutant: the gate is cleared as soon as the command has returned, before
\* the outcome is logged.
CommandReturnsClearsGate(r) ==
    /\ UNCHANGED <<cliVars, otherVars>>
    /\ task[r].st = "running"
    /\ \E o \in CommandOutcomes :
          task' = [task EXCEPT ![r] = [st |-> "returned", outcome |-> o]]
    /\ is_upgrading' = FALSE
    /\ NoteGate(FALSE)
    /\ UNCHANGED upg

\* The background task: Command::output() returns, the outcome is logged.
CommandReturns(r) ==
    /\ UNCHANGED <<cliVars, otherVars>>
    /\ task[r].st = "running"
    /\ \E o \in CommandOutcomes :
          task' = [task EXCEPT ![r] = [st |-> "returned", outcome |-> o]]
    /\ UNCHANGED <<is_upgrading, upg, stat>>

\* Mutant: the gate is cleared on the success arm only.
TaskStoreOnSuccessOnly(r) ==
    /\ UNCHANGED <<cliVars, otherVars>>
    /\ task[r].st = "returned"
    /\ task' = [task EXCEPT ![r] = [st |-> "finished", outcome |-> "none"]]
    /\ IF task[r].outcome = "success"
       THEN is_upgrading' = FALSE /\ NoteGate(FALSE)
       ELSE UNCHANGED <<is_upgrading, stat>>
    /\ UNCHANGED upg

\* state.is_upgrading.store(false, SeqCst), whatever the outcome was; the task
\* ends and its output is dropped.
TaskStore(r) ==
    /\ UNCHANGED <<cliVars, otherVars>>
    /\ task[r].st = "returned"
    /\ is_upgrading' = FALSE
    /\ task' = [task EXCEPT ![r] = [st |-> "finished", outcome |-> "none"]]
    /\ NoteGate(FALSE)
    /\ UNCHANGED upg

\* ------------------------------------------------------- status_handler
\* Mutant: the gate is read with swap(false) instead of load.
StatusLoadSwaps(s) ==
    /\ UNCHANGED <<cliVars, otherVars>>
    /\ stat[s].pc \in {"idle", "done"}
    /\ IF s = 1 THEN TRUE ELSE stat[s - 1].pc # "idle"
    /\ is_upgrading' = FALSE
    /\ stat' = [q \in StatusReqs |->
                 IF q = s
                 THEN [pc |-> "probe", is_upgrading |-> is_upgrading,
                       avail |-> "unknown", resp |-> NoResponse,
                       gate_seen |-> {is_upgrading, FALSE}]
                 ELSE IF StatusActive(q)
                      THEN [stat[q] EXCEPT !.gate_seen = @ \cup {FALSE}]
                      ELSE stat[q]]
    /\ UNCHANGED <<upg, task>>

\* let is_upgrading = state.is_upgrading.load(SeqCst);
\* A status slot serves one request after another: the next request starts
\* once the previous response is out, any number of times.
StatusLoad(s) ==
    /\ UNCHANGED <<cliVars, otherVars>>
    /\ stat[s].pc \in {"idle", "done"}
    /\ IF s = 1 THEN TRUE ELSE stat[s - 1].pc # "idle"
    /\ stat' = [stat EXCEPT ![s] = [pc |-> "probe",
                                    is_upgrading |-> is_upgrading,
                                    avail |-> "unknown",
                                    resp |-> NoResponse,
                                    gate_seen |-> {is_upgrading}]]
    /\ UNCHANGED <<is_upgrading, upg, task>>

\* Mutant: the unavailable response reports is_upgrading: false, as a stub would.
StatusProbeReportsIdle(s) ==
    /\ UNCHANGED <<cliVars, otherVars>>
    /\ stat[s].pc = "probe"
    /\ \E avail \in is_apt_available :
          stat' = [stat EXCEPT ![s] =
                    IF avail
                    THEN [@ EXCEPT !.pc = "enumerate", !.avail = "yes"]
                    ELSE [@ EXCEPT !.pc = "done", !.avail = "no",
                                   !.resp = [status |-> PRECONDITION_FAILED,
                                             message |-> MsgNotDebian,
                                             updates |-> <<>>,
                                             is_upgrading |-> FALSE]]]
    /\ UNCHANGED <<is_upgrading, upg, task>>

\* if !is_apt_available() { return (412, {fixed message, [], is_upgrading}) }
StatusProbe(s) ==
    /\ UNCHANGED <<cliVars, otherVars>>
    /\ stat[s].pc = "probe"
    /\ \E avail \in is_apt_available :
          stat' = [stat EXCEPT ![s] =
                    IF avail
                    THEN [@ EXCEPT !.pc = "enumerate", !.avail = "yes"]
                    ELSE [@ EXCEPT !.pc = "done", !.avail = "no",
                                   !.resp = [status |-> PRECONDITION_FAILED,
                                             message |-> MsgNotDebian,
                                             updates |-> <<>>,
                                             is_upgrading |-> stat[s].is_upgrading]]]
    /\ UNCHANGED <<is_upgrading, upg, task>>

\* get_apt_updates(): both builds return Ok(list) on every path.
get_apt_updates == {[ok |-> TRUE, updates |-> u] : u \in PossibleUpdates}

\* format!("System has {} outdated packages", count)
OutdatedMessage(count) ==
    IF count = 0 THEN MsgUpToDate ELSE <<"System has", count, "outdated packages">>

\* Mutant: the gate is loaded again when the response is built.
StatusEnumerateRereadsGate(s) ==
    /\ UNCHANGED <<cliVars, otherVars>>
    /\ stat[s].pc = "enumerate"
    /\ \E res \in get_apt_updates :
          stat' = [stat EXCEPT ![s] =
                    [@ EXCEPT !.pc = "done",
                              !.resp = [status |-> StatusOK,
                                        message |-> OutdatedMessage(Len(res.updates)),
                                        updates |-> res.updates,
                                        is_upgrading |-> is_upgrading]]]
    /\ UNCHANGED <<is_upgrading, upg, task>>

\* match get_apt_updates() { Ok(updates) => 200, Err(err) => 500 }
StatusEnumerate(s) ==
    /\ UNCHANGED <<cliVars, otherVars>>
    /\ stat[s].pc = "enumerate"
    /\ \E res \in get_apt_updates :
          stat' = [stat EXCEPT ![s] =
                    [@ EXCEPT !.pc = "done",
                              !.resp =
                                 IF res.ok
                                 THEN [status |-> StatusOK,
                                       message |-> OutdatedMessage(Len(res.updates)),
                                       updates |-> res.updates,
                                       is_upgrading |-> stat[s].is_upgrading]
                                 ELSE [status |-> INTERNAL_SERVER_ERROR,
                                       message |-> "Failed to check for updates",
                                       updates |-> <<>>,
                                       is_upgrading |-> stat[s].is_upgrading]]]
    /\ UNCHANGED <<is_upgrading, upg, task>>

\* ================================================ main, shutdown_signal
\* The daemon is up: the listener is bound, register_mdns has returned and
\* axum::serve(..).with_graceful_shutdown(shutdown_signal()) is being awaited.
ServerUp(registered) ==
    /\ mdns_daemon \in registered
    /\ ctrl_c = "new"
    /\ terminate = "new"
    /\ server = "serving"
    /\ in_flight = 0
    /\ delivered = {}
    /\ exited = FALSE

\* The daemon of the handlers' specifications: serving, advertisement registered.
ShutdownIdle == ServerUp({"Some"})

\* register_mdns returns Some(daemon), or None when the advertisement failed.
ShutdownInit == ServerUp({"Some", "None"})

\* tokio::signal::ctrl_c(): the handler is installed and the branch waits, or
\* the installation fails, the error is logged and the branch completes.
InstallCtrlC ==
    /\ ctrl_c = "new"
    /\ server = "serving"
    /\ \E installed \in BOOLEAN : ctrl_c' = IF installed THEN "waiting" ELSE "done"
    /\ UNCHANGED <<daemonVars, cliVars, resolverVars, fanVars, portVars, mdns_daemon,
                   terminate, server, in_flight, delivered, exited>>

\* signal(SignalKind::terminate()): Ok(signal) waits in recv(), Err is logged
\* and the branch completes.
InstallTerminate ==
    /\ terminate = "new"
    /\ server = "serving"
    /\ \E installed \in BOOLEAN : terminate' = IF installed THEN "waiting" ELSE "done"
    /\ UNCHANGED <<daemonVars, cliVars, resolverVars, fanVars, portVars, mdns_daemon,
                   ctrl_c, server, in_flight, delivered, exited>>

\* An interrupt is delivered: ctrl_c().await returns Ok(()).
Interrupt ==
    /\ ctrl_c = "waiting"
    /\ ~exited
    /\ ctrl_c' = "done"
    /\ delivered' = delivered \cup {"SIGINT"}
    /\ UNCHANGED <<daemonVars, cliVars, resolverVars, fanVars, portVars, mdns_daemon,
                   terminate, server, in_flight, exited>>

\* A termination signal is delivered: signal.recv().await returns.
Terminate ==
    /\ terminate = "waiting"
    /\ ~exited
    /\ terminate' = "done"
    /\ delivered' = delivered \cup {"SIGTERM"}
    /\ UNCHANGED <<daemonVars, cliVars, resolverVars, fanVars, portVars, mdns_daemon,
                   ctrl_c, server, in_flight, exited>>

\* tokio::select! { _ = ctrl_c => {}, _ = terminate => {} }: shutdown_signal
\* completes when one branch has completed; the server stops accepting.
ShutdownSignalReturns ==
    /\ server = "serving"
    /\ ctrl_c = "done" \/ terminate = "done"
    /\ server' = "draining"
    /\ UNCHANGED <<daemonVars, cliVars, resolverVars, fanVars, portVars, mdns_daemon,
                   ctrl_c, terminate, in_flight, delivered, exited>>

\* The server accepts a connection and routes its request to a handler.
Accept ==
    /\ server = "serving"
    /\ in_flight < MaxInFlight
    /\ in_flight' = in_flight + 1
    /\ UNCHANGED <<daemonVars, cliVars, resolverVars, fanVars, portVars, mdns_daemon,
                   ctrl_c, terminate, server, delivered, exited>>

\* A handler's response is out.
Complete ==
    /\ in_flight > 0
    /\ in_flight' = in_flight - 1
    /\ UNCHANGED <<daemonVars, cliVars, resolverVars, fanVars, portVars, mdns_daemon,
                   ctrl_c, terminate, server, delivered, exited>>

\* The graceful shutdown is over: the serve future completes once the
\* requests in flight are answered.
ServeReturns ==
    /\ server = "draining"
    /\ in_flight = 0
    /\ server' = "returned"
    /\ UNCHANGED <<daemonVars, cliVars, resolverVars, fanVars, portVars, mdns_daemon,
                   ctrl_c, terminate, in_flight, delivered, exited>>

\* if let Some(mdns) = mdns_daemon { mdns.shutdown() }; Ok(())
MdnsShutdown ==
    /\ server = "returned"
    /\ ~exited
    /\ mdns_daemon' = IF mdns_daemon = "Some" THEN "shutdown" ELSE mdns_daemon
    /\ exited' = TRUE
    /\ UNCHANGED <<daemonVars, cliVars, resolverVars, fanVars, portVars, ctrl_c, terminate,
                   server, in_flight, delivered>>

ShutdownNext ==
    \/ InstallCtrlC
    \/ InstallTerminate
    \/ Interrupt
    \/ Terminate
    \/ ShutdownSignalReturns
    \/ Accept
    \/ Complete
    \/ ServeReturns
    \/ MdnsShutdown

\* ======================================================= port selection
\* const DEFAULT_HTTP_PORT: u16 = 8080;
DEFAULT_HTTP_PORT == 8080

\* u16::MAX
U16_MAX == 65535

\* The ports another socket holds when the daemon starts: the ports from
\* DEFAULT_HTTP_PORT up to `upto` (excluded), and the ports of `extra`.
InUseSets ==
    {[upto |-> DEFAULT_HTTP_PORT, extra |-> {}],
     [upto |-> DEFAULT_HTTP_PORT + 1, extra |-> {DEFAULT_HTTP_PORT + 2}],
     [upto |-> DEFAULT_HTTP_PORT + 3, extra |-> {}],
     [upto |-> DEFAULT_HTTP_PORT + 1, extra |-> {U16_MAX}],
     [upto |-> U16_MAX, extra |-> {}],
     [upto |-> U16_MAX + 1, extra |-> {}]}

\* --port / COBBLER_DAEMON_PORT: absent, or a port.
ConfiguredPorts == {<<>>, <<DEFAULT_HTTP_PORT>>, <<DEFAULT_HTTP_PORT + 1>>, <<U16_MAX>>}

\* TcpListener::bind(addr) returns Err: the port is held by another socket.
InUse(p) == (DEFAULT_HTTP_PORT <= p /\ p < in_use.upto) \/ p \in in_use.extra

\* main is entered: nothing is bound yet.
PortInit ==
    /\ cli_port \in ConfiguredPorts
    /\ in_use \in InUseSets
    /\ http_port = 0
    /\ bpc = "start"
    /\ binds = 0

\* The daemon of the other specifications: no port configured, 8080 free.
PortIdle ==
    /\ cli_port = <<>>
    /\ in_use = [upto |-> DEFAULT_HTTP_PORT, extra |-> {}]
    /\ http_port = DEFAULT_HTTP_PORT
    /\ bpc = "listening"
    /\ binds = 1

\* if let Some(http_port) = cli.port { TcpListener::bind(addr).await.map_err(..)? }
BindConfigured ==
    /\ bpc = "start"
    /\ cli_port # <<>>
    /\ http_port' = cli_port[1]
    /\ binds' = binds + 1
    /\ bpc' = IF InUse(cli_port[1]) THEN "failed" ELSE "listening"
    /\ UNCHANGED <<daemonVars, cliVars, resolverVars, fanVars, shutdownVars,
                   cli_port, in_use>>

\* else { let mut port = DEFAULT_HTTP_PORT; loop { .. } }
HuntStart ==
    /\ bpc = "start"
    /\ cli_port = <<>>
    /\ http_port' = DEFAULT_HTTP_PORT
    /\ bpc' = "hunting"
    /\ UNCHANGED <<daemonVars, cliVars, resolverVars, fanVars, shutdownVars,
                   cli_port, in_use, binds>>

\* Mutant: the loop has no check against u16::MAX; the increment wraps.
HuntBindNoMaxCheck ==
    /\ bpc = "hunting"
    /\ binds' = binds + 1
    /\ IF ~InUse(http_port)
       THEN /\ bpc' = "listening"
            /\ http_port' = http_port
       ELSE /\ bpc' = bpc
            /\ http_port' = (http_port + 1) % (U16_MAX + 1)
    /\ UNCHANGED <<daemonVars, cliVars, resolverVars, fanVars, shutdownVars,
                   cli_port, in_use>>

\* match TcpListener::bind(addr).await { Ok(listener) => break (listener, port),
\* Err(e) => { if port == u16::MAX { return Err(e.into()) } port += 1 } }
HuntBind ==
    /\ bpc = "hunting"
    /\ binds' = binds + 1
    /\ IF ~InUse(http_port)
       THEN /\ bpc' = "listening"
            /\ http_port' = http_port
       ELSE IF http_port = U16_MAX
            THEN /\ bpc' = "failed"
                 /\ http_port' = http_port
            ELSE /\ bpc' = bpc
                 /\ http_port' = (http_port + 1) % (U16_MAX + 1)
    /\ UNCHANGED <<daemonVars, cliVars, resolverVars, fanVars, shutdownVars,
                   cli_port, in_use>>

PortNext ==
    \/ BindConfigured
    \/ HuntStart
    \/ HuntBind

\* ======================================================== operator tool
\* SERVICE_TYPE and SERVICE_DOMAIN, as the suffix of a full service name.
SERVICE_SUFFIX == "._cobbler._tcp.local."

\* Instance names (1, 2, ...: distinct names in their sort order), the
\* addresses a daemon can advertise (one IPv4, one IPv6) and its port.
Names == 1..NumNames
Addrs == {"10.0.0.5", "fe80::1"}
Ports == {8080}

is_ipv4(a) == a = "10.0.0.5"
is_ipv6(a) == a = "fe80::1"

\* ServiceInfo::get_fullname(): the instance name followed by type and domain.
FullName(n) == <<n, SERVICE_SUFFIX>>

\* The ServiceInfo of a resolved event: full name, address set, port.
ServiceInfos ==
    [fullname : {FullName(n) : n \in Names},
     addresses : (SUBSET Addrs) \ {{}},
     port : Ports]

NoInfo == [fullname |-> <<0, "">>, addresses |-> {}, port |-> 0]

\* ServiceEvent: ServiceResolved(info), ServiceFound, SearchStopped, others.
ServiceEvents ==
    {[type |-> "ServiceResolved", info |-> i] : i \in ServiceInfos}
        \cup {[type |-> ty, info |-> NoInfo] :
                 ty \in {"ServiceFound", "SearchStopped", "Other"}}

\* The orders in which a HashSet can be iterated.
Orders(S) ==
    {f \in [1..Cardinality(S) -> S] : \A i, j \in 1..Cardinality(S) : i # j => f[i] # f[j]}

\* entry_instance: the full name with the ".type.domain" suffix stripped.
entry_instance(info) ==
    IF info.fullname[2] = SERVICE_SUFFIX THEN info.fullname[1] ELSE info.fullname

\* entry_addresses: the IPv4 addresses, then the IPv6 addresses.
entry_addresses(info) ==
    SelectSeq(<<"10.0.0.5", "fe80::1">>, LAMBDA a : is_ipv4(a) /\ a \in info.addresses)
        \o SelectSeq(<<"10.0.0.5", "fe80::1">>, LAMBDA a : is_ipv6(a) /\ a \in info.addresses)

\* The row written for an entry (ID and HOST columns left out).
Row(info) ==
    [instance |-> entry_instance(info),
     addresses |-> entry_addresses(info),
     port |-> info.port]

\* IpAddr's Display: the characters of the address.
addr_to_string(a) ==
    IF a = "10.0.0.5"
    THEN <<"1", "0", ".", "0", ".", "0", ".", "5">>
    ELSE <<"f", "e", "8", "0", ":", ":", "1">>

\* u16's Display: the decimal digits.
RECURSIVE port_to_string(_)
port_to_string(n) ==
    LET digit == <<"0", "1", "2", "3", "4", "5", "6", "7", "8", "9">>[(n % 10) + 1] IN
    IF n < 10 THEN <<digit>> ELSE port_to_string(n \div 10) \o <<digit>>

\* format!("{}:{}", addr, port)
AddrPort(addr, port) == addr_to_string(addr) \o <<":">> \o port_to_string(port)

NodeConfig(address, api_key) == [address |-> address, api_key |-> api_key]

\* The configuration files a run can start from.
InitialConfigs == {<<>>, <<NodeConfig(AddrPort("10.0.0.5", 8080), "key1")>>}

\* The first resolved event of an identity is remembered (bookkeeping for the
\* properties; the code keeps no such map).
NoteFirst(e) ==
    first_info' =
        IF e.type = "ServiceResolved" /\ first_info[e.info.fullname[1]] = NoInfo
        THEN [first_info EXCEPT ![e.info.fullname[1]] = e.info]
        ELSE first_info

CliStart ==
    /\ cpc = "start"
    /\ now = 0
    /\ deadline = 0
    /\ seen = {}
    /\ header_printed = FALSE
    /\ table = <<>>
    /\ discovered_addresses = <<>>
    /\ targets = <<>>
    /\ loop_exit = "none"
    /\ result = <<"running">>
    /\ nrecv = 0
    /\ first_info = [n \in Names |-> NoInfo]
    /\ target_from = <<>>
    /\ config_saved = FALSE

\* No command is run.
CliIdle ==
    /\ cmd = "none"
    /\ timeout = 0
    /\ update_config = FALSE
    /\ config = <<>>
    /\ CliStart

\* `cobbler discover [-t T] [-u]` or `cobbler status --all`.
CliInit ==
    /\ cmd \in {"discover", "status"}
    /\ timeout \in 0..MaxTimeout
    /\ update_config \in (IF cmd = "discover" THEN BOOLEAN ELSE {FALSE})
    /\ config \in InitialConfigs
    /\ CliStart

\* Mutant: every wait is bounded by the original timeout.
RemainingIsTimeout == timeout

\* let remaining = deadline - now;
Remaining == deadline - now

\* ---------------------------------------------------------- run_discover
\* ServiceDaemon::new(), browse(), then deadline = Instant::now() + timeout.
RunDiscoverStart ==
    /\ cmd = "discover"
    /\ cpc = "start"
    /\ \E outcome \in {"ok", "create resolver", "browse"} :
          IF outcome = "ok"
          THEN /\ cpc' = "loop"
               /\ deadline' = now + timeout
               /\ result' = result
          ELSE /\ cpc' = "done"
               /\ deadline' = deadline
               /\ result' = <<"Err", outcome>>
    /\ UNCHANGED <<daemonVars, otherVars, cmd, timeout, update_config, config, now, seen,
                   header_printed, table, discovered_addresses, targets,
                   loop_exit, nrecv, first_info, target_from, config_saved>>

\* if now >= deadline { break; }
RunDiscoverDeadline ==
    /\ cmd = "discover"
    /\ cpc = "loop"
    /\ now >= deadline
    /\ cpc' = "after_loop"
    /\ loop_exit' = "deadline"
    /\ UNCHANGED <<daemonVars, otherVars, cmd, timeout, update_config, config, now, deadline,
                   seen, header_printed, table, discovered_addresses, targets,
                   result, nrecv, first_info, target_from, config_saved>>

\* The rows' addr:port strings, in the set's iteration order.
AddressesOf(info, order) == [i \in 1..Len(order) |-> AddrPort(order[i], info.port)]

\* match event { ServiceResolved(info) => if seen.insert(fullname) { print the
\* row; push its addr:port }, SearchStopped => eprintln, _ => {} }
RunDiscoverHandle(e) ==
    /\ IF e.type = "ServiceResolved" /\ e.info.fullname \notin seen
       THEN /\ seen' = seen \cup {e.info.fullname}
            /\ header_printed' = TRUE
            /\ table' = Append(table, Row(e.info))
            /\ \E order \in Orders(e.info.addresses) :
                  discovered_addresses' = discovered_addresses \o AddressesOf(e.info, order)
       ELSE UNCHANGED <<seen, header_printed, table, discovered_addresses>>
    /\ NoteFirst(e)

\* receiver.recv_timeout(remaining) returns Ok(event) within the bound.
RunDiscoverRecv ==
    /\ cmd = "discover"
    /\ cpc = "loop"
    /\ now < deadline
    /\ nrecv < MaxEvents
    /\ \E d \in 0..Remaining : now' = now + d
    /\ nrecv' = nrecv + 1
    /\ \E e \in ServiceEvents : RunDiscoverHandle(e)
    /\ UNCHANGED <<daemonVars, otherVars, cmd, timeout, update_config, config, cpc, deadline,
                   targets, loop_exit, result, target_from, config_saved>>

\* Err(RecvTimeoutError::Timeout) => break
RunDiscoverTimeout ==
    /\ cmd = "discover"
    /\ cpc = "loop"
    /\ now < deadline
    /\ now' = now + Remaining
    /\ cpc' = "after_loop"
    /\ loop_exit' = "timeout"
    /\ UNCHANGED <<daemonVars, otherVars, cmd, timeout, update_config, config, deadline, seen,
                   header_printed, table, discovered_addresses, targets, result,
                   nrecv, first_info, target_from, config_saved>>

\* for addr in discovered_addresses { if !config.nodes.iter().any(|n|
\* n.address == addr) { config.nodes.push(NodeConfig {..}) } }
RECURSIVE MergeDiscovered(_, _)
MergeDiscovered(nodes, addrs) ==
    IF addrs = <<>>
    THEN nodes
    ELSE MergeDiscovered(
             IF \E i \in 1..Len(nodes) : nodes[i].address = Head(addrs)
             THEN nodes
             ELSE Append(nodes, NodeConfig(Head(addrs), "none")),
             Tail(addrs))

\* Mutant: the entries found before the disconnection are merged into the
\* configuration before the error is returned.
RunDiscoverDisconnectedSaves ==
    /\ cmd = "discover"
    /\ cpc = "loop"
    /\ now < deadline
    /\ \E d \in 0..Remaining : now' = now + d
    /\ cpc' = "done"
    /\ loop_exit' = "disconnected"
    /\ result' = <<"Err", "browse: receiver disconnected">>
    /\ IF update_config
       THEN /\ config' = MergeDiscovered(config, discovered_addresses)
            /\ config_saved' = (config' # config)
       ELSE UNCHANGED <<config, config_saved>>
    /\ UNCHANGED <<daemonVars, otherVars, cmd, timeout, update_config, deadline, seen,
                   header_printed, table, discovered_addresses, targets,
                   nrecv, first_info, target_from>>

\* Mutant: a disconnected channel ends the collection like a timeout.
RunDiscoverDisconnectedBreaks ==
    /\ cmd = "discover"
    /\ cpc = "loop"
    /\ now < deadline
    /\ \E d \in 0..Remaining : now' = now + d
    /\ cpc' = "after_loop"
    /\ loop_exit' = "disconnected"
    /\ UNCHANGED <<daemonVars, otherVars, cmd, timeout, update_config, config, deadline, seen,
                   header_printed, table, discovered_addresses, targets, result,
                   nrecv, first_info, target_from, config_saved>>

\* Err(RecvTimeoutError::Disconnected) => return Err("browse: receiver disconnected")
RunDiscoverDisconnected ==
    /\ cmd = "discover"
    /\ cpc = "loop"
    /\ now < deadline
    /\ \E d \in 0..Remaining : now' = now + d
    /\ cpc' = "done"
    /\ loop_exit' = "disconnected"
    /\ result' = <<"Err", "browse: receiver disconnected">>
    /\ UNCHANGED <<daemonVars, otherVars, cmd, timeout, update_config, config, deadline, seen,
                   header_printed, table, discovered_addresses, targets,
                   nrecv, first_info, target_from, config_saved>>

\* A line of text on standard output or in the report's writer.
Line(text) == <<"line", text>>

\* println!("No cobbler daemons found.")
MsgNoDaemons == "No cobbler daemons found."

\* Mutant: with --update-config the file is written whether or not a node
\* was added.
RunDiscoverFinishAlwaysSaves ==
    /\ cmd = "discover"
    /\ cpc = "after_loop"
    /\ IF update_config
       THEN /\ config' = MergeDiscovered(config, discovered_addresses)
            /\ config_saved' = TRUE
       ELSE UNCHANGED <<config, config_saved>>
    /\ stdout' = IF header_printed THEN stdout ELSE Append(stdout, Line(MsgNoDaemons))
    /\ cpc' = "done"
    /\ result' = <<"Ok">>
    /\ UNCHANGED <<daemonVars, resolverVars, shutdownVars, portVars, discover_all, config_exists,
                   dispatch_targets, requests, outcomes, tw,
                   cmd, timeout, update_config, now, deadline, seen,
                   header_printed, table, discovered_addresses, targets,
                   loop_exit, nrecv, first_info, target_from>>

\* After the loop: mdns.shutdown(), the "No cobbler daemons found." line, and
\* with --update-config the merge into the configuration, saved if it changed.
RunDiscoverFinish ==
    /\ cmd = "discover"
    /\ cpc = "after_loop"
    /\ IF update_config
       THEN /\ config' = MergeDiscovered(config, discovered_addresses)
            /\ config_saved' = (config' # config)
       ELSE UNCHANGED <<config, config_saved>>
    /\ stdout' = IF header_printed THEN stdout ELSE Append(stdout, Line(MsgNoDaemons))
    /\ cpc' = "done"
    /\ result' = <<"Ok">>
    /\ UNCHANGED <<daemonVars, resolverVars, shutdownVars, portVars, discover_all, config_exists,
                   dispatch_targets, requests, outcomes, tw,
                   cmd, timeout, update_config, now, deadline, seen,
                   header_printed, table, discovered_addresses, targets,
                   loop_exit, nrecv, first_info, target_from>>

\* ------------------------------------------------------ discover_targets
\* run_status with --all: targets.extend(discover_targets()?)
DiscoverTargetsStart ==
    /\ cmd = "status"
    /\ discover_all
    /\ cpc = "start"
    /\ \E outcome \in {"ok", "create resolver", "browse"} :
          IF outcome = "ok"
          THEN /\ cpc' = "loop"
               /\ deadline' = now + timeout
               /\ result' = result
          ELSE /\ cpc' = "done"
               /\ deadline' = deadline
               /\ result' = <<"Err", outcome>>
    /\ UNCHANGED <<daemonVars, otherVars, cmd, timeout, update_config, config, now, seen,
                   header_printed, table, discovered_addresses, targets,
                   loop_exit, nrecv, first_info, target_from, config_saved>>

\* if now >= deadline { break; }
DiscoverTargetsDeadline ==
    /\ cmd = "status"
    /\ cpc = "loop"
    /\ now >= deadline
    /\ cpc' = "dispatch"
    /\ loop_exit' = "deadline"
    /\ UNCHANGED <<daemonVars, otherVars, cmd, timeout, update_config, config, now, deadline,
                   seen, header_printed, table, discovered_addresses, targets,
                   result, nrecv, first_info, target_from, config_saved>>

\* for addr in info.get_addresses() { let target = format!("{}:{}", addr, port);
\* if seen.insert(target.clone()) { targets.push(target); } }
RECURSIVE PushTargets(_, _, _)
PushTargets(acc, order, info) ==
    IF order = <<>>
    THEN acc
    ELSE LET target == AddrPort(Head(order), info.port) IN
         PushTargets(
             IF target \in acc.seen
             THEN acc
             ELSE [seen |-> acc.seen \cup {target},
                   targets |-> Append(acc.targets, target),
                   from |-> Append(acc.from, info.fullname)],
             Tail(order), info)

\* if let ServiceEvent::ServiceResolved(info) = event { ... }
DiscoverTargetsHandle(e) ==
    /\ IF e.type = "ServiceResolved"
       THEN \E order \in Orders(e.info.addresses) :
               LET acc == PushTargets([seen |-> seen, targets |-> targets,
                                       from |-> target_from], order, e.info) IN
               /\ seen' = acc.seen
               /\ targets' = acc.targets
               /\ target_from' = acc.from
       ELSE UNCHANGED <<seen, targets, target_from>>
    /\ NoteFirst(e)

\* receiver.recv_timeout(remaining) returns Ok(event) within the bound.
DiscoverTargetsRecv ==
    /\ cmd = "status"
    /\ cpc = "loop"
    /\ now < deadline
    /\ nrecv < MaxEvents
    /\ \E d \in 0..Remaining : now' = now + d
    /\ nrecv' = nrecv + 1
    /\ \E e \in ServiceEvents : DiscoverTargetsHandle(e)
    /\ UNCHANGED <<daemonVars, otherVars, cmd, timeout, update_config, config, cpc, deadline,
                   header_printed, table, discovered_addresses, loop_exit, result,
                   config_saved>>

\* Err(RecvTimeoutError::Timeout) => break
DiscoverTargetsTimeout ==
    /\ cmd = "status"
    /\ cpc = "loop"
    /\ now < deadline
    /\ now' = now + Remaining
    /\ cpc' = "dispatch"
    /\ loop_exit' = "timeout"
    /\ UNCHANGED <<daemonVars, otherVars, cmd, timeout, update_config, config, deadline, seen,
                   header_printed, table, discovered_addresses, targets, result,
                   nrecv, first_info, target_from, config_saved>>

\* Err(err) => return Err(format!("mDNS error: {err}")), which run_status
\* propagates with `?`.
DiscoverTargetsDisconnected ==
    /\ cmd = "status"
    /\ cpc = "loop"
    /\ now < deadline
    /\ \E d \in 0..Remaining : now' = now + d
    /\ cpc' = "done"
    /\ loop_exit' = "disconnected"
    /\ result' = <<"Err", "mDNS error: disconnected">>
    /\ UNCHANGED <<daemonVars, otherVars, cmd, timeout, update_config, config, deadline, seen,
                   header_printed, table, discovered_addresses, targets,
                   nrecv, first_info, target_from, config_saved>>

\* ========================================================= resolve_url
\* A string is the sequence of its characters.
HTTP == <<"h", "t", "t", "p", ":", "/", "/">>
HTTPS == <<"h", "t", "t", "p", "s", ":", "/", "/">>

\* str::starts_with
starts_with(s, p) == Len(s) >= Len(p) /\ SubSeq(s, 1, Len(p)) = p

\* str::contains(char)
contains(s, c) == \E i \in 1..Len(s) : s[i] = c

\* str::trim_end_matches(char): every trailing occurrence is removed.
RECURSIVE trim_end_matches(_, _)
trim_end_matches(s, c) ==
    IF s # <<>> /\ s[Len(s)] = c
    THEN trim_end_matches(SubSeq(s, 1, Len(s) - 1), c)
    ELSE s

\* str::split(char): the pieces between the occurrences, empty ones included.
RECURSIVE split(_, _)
split(s, c) ==
    IF ~contains(s, c)
    THEN <<s>>
    ELSE LET i == CHOOSE k \in 1..Len(s) : s[k] = c /\ \A j \in 1..(k - 1) : s[j] # c IN
         <<SubSeq(s, 1, i - 1)>> \o split(SubSeq(s, i + 1, Len(s)), c)

\* [&str]::join(sep)
RECURSIVE join(_, _)
join(parts, sep) ==
    IF parts = <<>> THEN <<>>
    ELSE IF Len(parts) = 1 THEN parts[1]
    ELSE parts[1] \o sep \o join(Tail(parts), sep)

\* char::is_ascii_digit
is_ascii_digit(c) == c \in {"0", "1", "2", "3", "4", "5", "6", "7", "8", "9"}

\* chars().all(|c| c.is_ascii_digit()): true of the empty string
all_ascii_digits(s) == \A i \in 1..Len(s) : is_ascii_digit(s[i])

\* Mutant: the host is the part before the FIRST colon, as split_once would
\* give it, and is never bracketed.
resolve_url_first_colon(target) ==
    IF starts_with(target, HTTP) \/ starts_with(target, HTTPS)
    THEN trim_end_matches(target, "/")
    ELSE IF contains(target, ":")
              /\ all_ascii_digits(split(target, ":")[Len(split(target, ":"))])
         THEN LET parts == split(target, ":")
                  host == parts[1]
                  port == join(Tail(parts), <<":">>)
              IN HTTP \o host \o <<":">> \o port
         ELSE HTTP \o trim_end_matches(target, "/")

\* fn resolve_url(target: &str) -> String
resolve_url(target) ==
    IF starts_with(target, HTTP) \/ starts_with(target, HTTPS)
    THEN trim_end_matches(target, "/")
    ELSE IF contains(target, ":")
              /\ all_ascii_digits(split(target, ":")[Len(split(target, ":"))])
         THEN LET parts == split(target, ":")
                  host == join(SubSeq(parts, 1, Len(parts) - 1), <<":">>)
                  port == parts[Len(parts)]
              IN IF contains(host, ":") /\ ~starts_with(host, <<"[">>)
                 THEN HTTP \o <<"[">> \o host \o <<"]", ":">> \o port
                 ELSE HTTP \o host \o <<":">> \o port
         ELSE HTTP \o trim_end_matches(target, "/")

\* The strings handed to the resolver: an optional scheme (or a near miss of
\* one) followed by up to MaxLen characters, and the documented examples.
Alphabet == {"h", "1", ":", "/", "[", "]"}

Strings(n) == UNION {[1..k -> Alphabet] : k \in 0..n}

Schemes == {<<>>, HTTP, HTTPS, <<"h", "t", "t", "p", ":", "/">>}

Ex_host_port == <<"1", "0", ".", "0", ".", "0", ".", "5", ":", "8", "0", "8", "0">>
Ex_bracketed == <<"[", ":", ":", "1", "]", ":", "8", "0", "8", "0">>
Ex_ipv6 == <<"f", "e", "8", "0", ":", ":", "1", ":", "8", "0", "8", "0">>
Ex_https == <<"h", "t", "t", "p", "s", ":", "/", "/", "h", "/">>
Ex_plain == <<"p", "l", "a", "i", "n", "h", "o", "s", "t">>

Examples == {Ex_host_port, Ex_bracketed, Ex_ipv6, Ex_https, Ex_plain}

ResolveInputs == {p \o b : p \in Schemes, b \in Strings(MaxLen)} \cup Examples

ResolverIdle == raw = <<>> /\ url = <<>>

\* ============================================ run_status, run_packages
MsgNoConfig == "No config file was found or set."
MsgNoTargets == "No targets found."
ReportHeader == "TARGET\tSTATUS"

\* The target strings of the command line: the address:port of a daemon, a
\* URL of the same daemon, and the address:port of its IPv6 address.
T_host_port == AddrPort("10.0.0.5", 8080)
T_url == HTTP \o T_host_port
T_ipv6 == AddrPort("fe80::1", 8080)

ArgTargets == {T_host_port, T_url, T_ipv6}

\* The `targets` arguments of a run: up to MaxArgs strings.
ArgLists == UNION {[1..k -> ArgTargets] : k \in 0..MaxArgs}

\* The configuration files a status or packages run can start from: no node,
\* a node with a key, two nodes with their keys, a node without key followed
\* by a node of the same address with a key.
FanConfigs ==
    {<<>>,
     <<NodeConfig(T_host_port, "key1")>>,
     <<NodeConfig(T_host_port, "key1"), NodeConfig(T_ipv6, "key2")>>,
     <<NodeConfig(T_host_port, "none"), NodeConfig(T_host_port, "key1")>>}

\* What request.send() can return: Err (the request could not be completed),
\* or Ok with a response: its status and whether its body parses as JSON.
TransportError == [ok |-> FALSE, status |-> 0, json |-> FALSE]

SendOutcomes ==
    {TransportError}
        \cup {[ok |-> TRUE, status |-> StatusOK, json |-> TRUE],
              [ok |-> TRUE, status |-> PRECONDITION_FAILED, json |-> TRUE],
              [ok |-> TRUE, status |-> StatusOK, json |-> FALSE]}

\* Nothing of a report has been produced.
FanStart ==
    /\ dispatch_targets = <<>>
    /\ requests = <<>>
    /\ outcomes = <<>>
    /\ tw = <<>>
    /\ stdout = <<>>

\* No status or packages command is run with explicit targets.
FanIdle ==
    /\ discover_all = (cmd = "status")
    /\ config_exists = TRUE
    /\ FanStart

\* main: Commands::Status without --all: the "No config file" line, then
\* run_status, whose `if discover_all` is skipped.
RunStatusStart ==
    /\ cmd = "status"
    /\ ~discover_all
    /\ cpc = "start"
    /\ stdout' = IF dispatch_targets = <<>> /\ ~config_exists
                 THEN Append(stdout, Line(MsgNoConfig))
                 ELSE stdout
    /\ cpc' = "dispatch"
    /\ UNCHANGED <<daemonVars, resolverVars, shutdownVars, portVars, cmd, timeout, update_config, config,
                   now, deadline, seen, header_printed, table,
                   discovered_addresses, targets, loop_exit, result, nrecv,
                   first_info, target_from, config_saved, discover_all,
                   config_exists, dispatch_targets, requests, outcomes, tw>>

\* main: Commands::Packages: the "No config file" line, then run_packages.
RunPackagesStart ==
    /\ cmd = "packages"
    /\ cpc = "start"
    /\ stdout' = IF dispatch_targets = <<>> /\ ~config_exists
                 THEN Append(stdout, Line(MsgNoConfig))
                 ELSE stdout
    /\ cpc' = "dispatch"
    /\ UNCHANGED <<daemonVars, resolverVars, shutdownVars, portVars, cmd, timeout, update_config, config,
                   now, deadline, seen, header_printed, table,
                   discovered_addresses, targets, loop_exit, result, nrecv,
                   first_info, target_from, config_saved, discover_all,
                   config_exists, dispatch_targets, requests, outcomes, tw>>

\* for node in &config.nodes { targets.push(node.address.clone()); }
NodeAddresses(nodes) == [i \in 1..Len(nodes) |-> nodes[i].address]

\* if targets.is_empty() { the configured nodes }; the list that is dispatched.
WithConfigured(list) == IF list = <<>> THEN NodeAddresses(config) ELSE list

\* discover_targets has returned (or was not called): its locals (now,
\* deadline, seen), the receiver and the bookkeeping of its events are gone.
CollectorDropped ==
    /\ now' = 0
    /\ deadline' = 0
    /\ seen' = {}
    /\ loop_exit' = "none"
    /\ nrecv' = 0
    /\ first_info' = [n \in Names |-> NoInfo]
    /\ target_from' = <<>>

\* Mutant: an empty list is dispatched like any other: header and flush.
PrepareNoEmptyCheck(list) ==
    /\ cpc = "dispatch"
    /\ dispatch_targets' = WithConfigured(list)
    /\ \E built \in BOOLEAN :
          IF built
          THEN /\ tw' = <<Line(ReportHeader)>>
               /\ cpc' = IF dispatch_targets' = <<>> THEN "flush" ELSE "fanout"
               /\ UNCHANGED <<result, stdout>>
          ELSE /\ cpc' = "done"
               /\ result' = <<"Err", "builder error">>
               /\ UNCHANGED <<tw, stdout>>
    /\ CollectorDropped
    /\ UNCHANGED <<daemonVars, resolverVars, shutdownVars, portVars, cmd, timeout, update_config, config,
                   header_printed, table, discovered_addresses, targets,
                   config_saved, discover_all, config_exists, requests, outcomes>>

\* The fallback to the configured nodes, the "No targets found." return, the
\* client (Client::builder().timeout(..).build()?) and the report's header.
Prepare(list) ==
    /\ cpc = "dispatch"
    /\ dispatch_targets' = WithConfigured(list)
    /\ IF dispatch_targets' = <<>>
       THEN /\ stdout' = Append(stdout, Line(MsgNoTargets))
            /\ cpc' = "done"
            /\ result' = <<"Ok">>
            /\ UNCHANGED tw
       ELSE \E built \in BOOLEAN :
               IF built
               THEN /\ tw' = <<Line(ReportHeader)>>
                    /\ cpc' = "fanout"
                    /\ UNCHANGED <<result, stdout>>
               ELSE /\ cpc' = "done"
                    /\ result' = <<"Err", "builder error">>
                    /\ UNCHANGED <<tw, stdout>>
    /\ CollectorDropped
    /\ UNCHANGED <<daemonVars, resolverVars, shutdownVars, portVars, cmd, timeout, update_config, config,
                   header_printed, table, discovered_addresses, targets,
                   config_saved, discover_all, config_exists, requests, outcomes>>

\* run_status: targets.extend(discover_targets()?) under --all, then the rest.
RunStatusPrepare ==
    /\ cmd = "status"
    /\ Prepare(IF discover_all THEN dispatch_targets \o targets ELSE dispatch_targets)

\* run_packages: no discovery.
RunPackagesPrepare ==
    /\ cmd = "packages"
    /\ Prepare(dispatch_targets)

\* config.nodes.iter().find(|n| n.address == target), then its api_key.
ApiKeyFor(target) ==
    IF \E i \in 1..Len(config) : config[i].address = target
    THEN config[CHOOSE i \in 1..Len(config) :
                    /\ config[i].address = target
                    /\ \A j \in 1..(i - 1) : config[j].address # target].api_key
    ELSE "none"

\* The status label and the body of a target's outcome.
OutcomeRow(target, out, fallback) ==
    <<"row",
      [target |-> target,
       status |-> IF out.ok THEN <<"status", out.status>> ELSE <<"Error">>,
       body |-> IF out.ok THEN (IF out.json THEN "json" ELSE fallback) ELSE ""]>>

\* Mutant: the first request that cannot be completed ends the batch.
SendTargetAbortOnError(method, path, fallback) ==
    /\ cpc = "fanout"
    /\ LET target == dispatch_targets[Len(outcomes) + 1] IN
       /\ requests' = Append(requests,
                             [method |-> method,
                              url |-> resolve_url(target) \o path,
                              api_key |-> ApiKeyFor(target)])
       /\ \E out \in SendOutcomes :
             /\ outcomes' = Append(outcomes, out)
             /\ tw' = Append(tw, OutcomeRow(target, out, fallback))
             /\ cpc' = IF Len(outcomes') = Len(dispatch_targets) \/ ~out.ok
                       THEN "flush" ELSE "fanout"
    /\ UNCHANGED <<daemonVars, resolverVars, shutdownVars, portVars, cmd, timeout, update_config, config,
                   now, deadline, seen, header_printed, table,
                   discovered_addresses, targets, loop_exit, result, nrecv,
                   first_info, target_from, config_saved, discover_all,
                   config_exists, dispatch_targets, stdout>>

\* One iteration of `for target in targets`: the URL, the request with the
\* X-API-Key header of the target's node, send(), the outcome's row.
SendTarget(method, path, fallback) ==
    /\ cpc = "fanout"
    /\ LET target == dispatch_targets[Len(outcomes) + 1] IN
       /\ requests' = Append(requests,
                             [method |-> method,
                              url |-> resolve_url(target) \o path,
                              api_key |-> ApiKeyFor(target)])
       /\ \E out \in SendOutcomes :
             /\ outcomes' = Append(outcomes, out)
             /\ tw' = Append(tw, OutcomeRow(target, out, fallback))
             /\ cpc' = IF Len(outcomes') = Len(dispatch_targets) THEN "flush" ELSE "fanout"
    /\ UNCHANGED <<daemonVars, resolverVars, shutdownVars, portVars, cmd, timeout, update_config, config,
                   now, deadline, seen, header_printed, table,
                   discovered_addresses, targets, loop_exit, result, nrecv,
                   first_info, target_from, config_saved, discover_all,
                   config_exists, dispatch_targets, stdout>>

\* client.get(format!("{}/status", url))
RunStatusSend ==
    /\ cmd = "status"
    /\ SendTarget("GET", <<"/", "s", "t", "a", "t", "u", "s">>,
                  "Could not parse response as JSON")

\* client.post(format!("{}/packages/full-upgrade", url))
RunPackagesSend ==
    /\ cmd = "packages"
    /\ SendTarget("POST", <<"/", "p", "a", "c", "k", "a", "g", "e", "s", "/",
                            "f", "u", "l", "l", "-", "u", "p", "g", "r", "a", "d", "e">>,
                  "Upgrade triggered successfully")

\* tw.flush()?; Ok(())
Flush ==
    /\ cpc = "flush"
    /\ stdout' = stdout \o tw
    /\ cpc' = "done"
    /\ result' = <<"Ok">>
    /\ UNCHANGED <<daemonVars, resolverVars, shutdownVars, portVars, cmd, timeout, update_config, config,
                   now, deadline, seen, header_printed, table,
                   discovered_addresses, targets, loop_exit, nrecv,
                   first_info, target_from, config_saved, discover_all,
                   config_exists, dispatch_targets, requests, outcomes, tw>>

RunStatusFlush == cmd = "status" /\ Flush

RunPackagesFlush == cmd = "packages" /\ Flush

\* get_default_timeout() without COBBLER_TIMEOUT: 60 seconds, one tick here.
get_default_timeout == 1

\* `cobbler discover -t T`, `cobbler status [--all] [targets]` or
\* `cobbler packages --full-upgrade [targets]`; without a configuration file
\* the configuration is the default one.
CliAnyInit ==
    /\ cmd \in {"discover", "status", "packages"}
    /\ timeout \in (IF cmd = "discover" THEN 0..MaxTimeout ELSE {get_default_timeout})
    /\ update_config \in (IF cmd = "discover" THEN BOOLEAN ELSE {FALSE})
    /\ discover_all \in (IF cmd = "status" THEN BOOLEAN ELSE {FALSE})
    /\ config_exists \in BOOLEAN
    /\ config \in (IF cmd = "discover" THEN InitialConfigs
                   ELSE IF config_exists THEN FanConfigs ELSE {<<>>})
    /\ dispatch_targets \in (IF cmd = "discover" THEN {<<>>} ELSE ArgLists)
    /\ requests = <<>>
    /\ outcomes = <<>>
    /\ tw = <<>>
    /\ stdout = <<>>
    /\ CliStart

CliNext ==
    \/ RunDiscoverStart
    \/ RunDiscoverDeadline
    \/ RunDiscoverRecv
    \/ RunDiscoverTimeout
    \/ RunDiscoverDisconnected
    \/ RunDiscoverFinish
    \/ DiscoverTargetsStart
    \/ DiscoverTargetsDeadline
    \/ DiscoverTargetsRecv
    \/ DiscoverTargetsTimeout
    \/ DiscoverTargetsDisconnected
    \/ RunStatusStart
    \/ RunStatusPrepare
    \/ RunStatusSend
    \/ RunStatusFlush
    \/ RunPackagesStart
    \/ RunPackagesPrepare
    \/ RunPackagesSend
    \/ RunPackagesFlush

\* The state in which a run of the operator tool starts.
CliSpecInit == DaemonInit /\ ShutdownIdle /\ PortIdle /\ ResolverIdle /\ CliAnyInit

CliSpec == CliSpecInit /\ [][CliNext]_vars

ResolveInit == raw \in ResolveInputs /\ url = <<>>

\* let url = resolve_url(&target);
ResolveCall ==
    /\ url = <<>>
    /\ url' = resolve_url(raw)
    /\ UNCHANGED <<daemonVars, cliVars, fanVars, shutdownVars, portVars, raw>>

ResolveNext == ResolveCall

\* The state in which resolve_url is about to be called on a target.
ResolveSpecInit == DaemonInit /\ ShutdownIdle /\ PortIdle /\ CliIdle /\ FanIdle /\ ResolveInit

ResolveSpec == ResolveSpecInit /\ [][ResolveNext]_vars

DiscoverInit == DaemonInit /\ ShutdownIdle /\ PortIdle /\ CliInit /\ ResolverIdle /\ FanIdle

DiscoverNext ==
    \/ RunDiscoverStart
    \/ RunDiscoverDeadline
    \/ RunDiscoverRecv
    \/ RunDiscoverTimeout
    \/ RunDiscoverDisconnected
    \/ RunDiscoverFinish
    \/ DiscoverTargetsStart
    \/ DiscoverTargetsDeadline
    \/ DiscoverTargetsRecv
    \/ DiscoverTargetsTimeout
    \/ DiscoverTargetsDisconnected

DiscoverSpec == DiscoverInit /\ [][DiscoverNext]_vars

\* ------------------------------------------------------------ the daemon
Init == DaemonInit /\ ShutdownIdle /\ PortIdle /\ CliIdle /\ ResolverIdle /\ FanIdle

\* The daemon from start to exit: signals, requests, the graceful shutdown.
ShutdownSpecInit == DaemonInit /\ ShutdownInit /\ PortIdle /\ CliIdle /\ ResolverIdle /\ FanIdle

ShutdownSpec == ShutdownSpecInit /\ [][ShutdownNext]_vars

\* main up to the listener: nothing is served or advertised yet.
NotServing ==
    /\ mdns_daemon = "None"
    /\ ctrl_c = "new"
    /\ terminate = "new"
    /\ server = "unbound"
    /\ in_flight = 0
    /\ delivered = {}
    /\ exited = FALSE

PortSpecInit == DaemonInit /\ NotServing /\ PortInit /\ CliIdle /\ ResolverIdle /\ FanIdle

\* main runs on: the bind calls return and the loop goes round.
PortSpec == PortSpecInit /\ [][PortNext]_vars /\ WF_vars(PortNext)

Next ==
    \/ \E r \in UpgradeReqs : UpgradeArrive(r)
    \/ \E r \in UpgradeReqs : UpgradeProbe(r)
    \/ \E r \in UpgradeReqs : UpgradeCas(r)
    \/ \E r \in UpgradeReqs : UpgradeSpawn(r)
    \/ \E r \in UpgradeReqs : CommandReturns(r)
    \/ \E r \in UpgradeReqs : TaskStore(r)
    \/ \E s \in StatusReqs : StatusLoad(s)
    \/ \E s \in StatusReqs : StatusProbe(s)
    \/ \E s \in StatusReqs : StatusEnumerate(s)

Spec == Init /\ [][Next]_vars

\* The runtime keeps scheduling a handler that has been routed and a task that
\* has been spawned, and the external command returns; nothing obliges a
\* client to send a request.
Fairness ==
    /\ \A r \in UpgradeReqs : WF_vars(UpgradeProbe(r))
    /\ \A r \in UpgradeReqs : WF_vars(UpgradeCas(r))
    /\ \A r \in UpgradeReqs : WF_vars(UpgradeSpawn(r))
    /\ \A r \in UpgradeReqs : WF_vars(CommandReturns(r))
    /\ \A r \in UpgradeReqs : WF_vars(TaskStore(r))

\* The trigger requests and their tasks alone: the status requests, whose
\* steps change neither the gate nor upg nor task, are left out.
UpgradeNext ==
    \/ \E r \in UpgradeReqs : UpgradeArrive(r)
    \/ \E r \in UpgradeReqs : UpgradeProbe(r)
    \/ \E r \in UpgradeReqs : UpgradeCas(r)
    \/ \E r \in UpgradeReqs : UpgradeSpawn(r)
    \/ \E r \in UpgradeReqs : CommandReturns(r)
    \/ \E r \in UpgradeReqs : TaskStore(r)

FairSpec == Init /\ [][UpgradeNext]_vars /\ Fairness

\* The runtime keeps scheduling the handlers; nothing is assumed of the
\* external command, which may run forever.
HandlerFairness ==
    /\ \A r \in UpgradeReqs : WF_vars(UpgradeProbe(r))
    /\ \A r \in UpgradeReqs : WF_vars(UpgradeCas(r))
    /\ \A r \in UpgradeReqs : WF_vars(UpgradeSpawn(r))

HandlerFairSpec == Init /\ [][UpgradeNext]_vars /\ HandlerFairness

\* ----------------------------------------------------------------- gate
\* The upgrade operations in flight: spawned, the gate not yet released.
InFlight == {r \in UpgradeReqs : task[r].st \in {"running", "returned"}}

Launched == {r \in UpgradeReqs : task[r].st # "none"}

Finished == {r \in UpgradeReqs : task[r].st = "finished"}

\* The requests that won the compare-and-exchange.
Acquired == {r \in UpgradeReqs : upg[r].pc = "spawn" \/ task[r].st # "none"}

Answered(code) == {r \in UpgradeReqs : upg[r].pc = "done" /\ upg[r].status = code}

Rejected == {r \in UpgradeReqs : upg[r].pc = "done" /\ upg[r].message = MsgRunning}

\* C1: in every reachable state at most one background upgrade operation is
\* in flight (launched and not yet completed), whatever the number and the
\* interleaving of trigger requests and completions.
C1_AtMostOneInFlight == Cardinality(InFlight) <= 1

\* C1 witness: an upgrade is in flight and a trigger request that was handled
\* concurrently has been rejected.
C1_Witness ==
    \E r1, r2 \in UpgradeReqs :
        /\ r1 # r2
        /\ task[r1].st = "running"
        /\ r2 \in Rejected
        /\ upg[r2].concurrent

\* C2 as stated: two trigger requests issued concurrently on an idle gate
\* with the package manager available get exactly one 200 and one 412, and the
\* gate is idle once the background operations are over.
C2_ExactlyOne200One412 ==
    ( /\ upg[1].pc = "done" /\ upg[2].pc = "done"
      /\ upg[1].avail = "yes" /\ upg[2].avail = "yes"
      /\ ~upg[1].gate_on_arrival
      /\ upg[2].concurrent
      /\ \A r \in UpgradeReqs : r > 2 => upg[r].pc = "idle"
      /\ InFlight = {} )
    => /\ {upg[1].status, upg[2].status} = {StatusOK, PRECONDITION_FAILED}
       /\ is_upgrading = FALSE

\* C2 amended: of the trigger requests that reach the gate, at least one is
\* answered 200; a 412 "currently running" is given only while another request
\* holds the gate; 200 is given exactly to the requests that launched, so a
\* second 200 needs a completed upgrade before it; the gate is idle once every
\* routed request is answered and every launched operation has finished.
C2_OneWinnerPerIdlePeriod ==
    /\ \A r \in UpgradeReqs :
          (upg[r].pc = "done" /\ upg[r].avail = "yes")
              => upg[r].status \in {StatusOK, PRECONDITION_FAILED}
    /\ Answered(StatusOK) = Launched
    /\ Cardinality(Answered(StatusOK)) <= Cardinality(Finished) + 1
    /\ \A r \in Rejected : Acquired \ {r} # {}
    /\ (\E r \in UpgradeReqs : upg[r].pc \in {"spawn", "done"} /\ upg[r].avail = "yes")
          => Acquired # {}
    /\ ((\A r \in UpgradeReqs : ~UpgradeActive(r)) /\ InFlight = {})
          => is_upgrading = FALSE

\* C2 witness: two concurrent triggers, one 200 and one 412, the operation
\* over, and a status request that read the gate after the operation's release
\* (it is in progress and has seen no gate change) holds is_upgrading = false.
C2_Witness ==
    /\ upg[2].concurrent
    /\ {upg[1].status, upg[2].status} = {StatusOK, PRECONDITION_FAILED}
    /\ upg[1].avail = "yes" /\ upg[2].avail = "yes"
    /\ Finished # {} /\ InFlight = {}
    /\ \E s \in StatusReqs :
          /\ StatusActive(s)
          /\ stat[s].gate_seen = {FALSE}
          /\ stat[s].is_upgrading = FALSE

\* C3: every launched upgrade operation eventually finishes, releasing the
\* gate, once the command has returned with any of its three outcomes; the
\* gate never stays in Upgrading forever.
C3_GateReturnsToIdle ==
    /\ \A r \in UpgradeReqs : (task[r].st = "running") ~> (task[r].st = "finished")
    /\ \A r \in UpgradeReqs : \A o \in CommandOutcomes :
          (task[r] = [st |-> "returned", outcome |-> o]) ~> (task[r].st = "finished")
    /\ is_upgrading ~> ~is_upgrading

\* C3 witness: an operation that could not be executed is about to release a
\* gate that an earlier, finished operation had released before.
C3_Witness ==
    \E r1, r2 \in UpgradeReqs :
        /\ task[r1].st = "finished"
        /\ task[r2] = [st |-> "returned", outcome |-> "exec_error"]

\* C4 as stated: a trigger request that arrives while the gate is Upgrading
\* (and passes the availability check) is answered 412 "a full upgrade is
\* currently running" and launches nothing.
C4_ArrivalWhileUpgradingRejected ==
    \A r \in UpgradeReqs :
        (upg[r].pc = "done" /\ upg[r].gate_on_arrival /\ upg[r].avail = "yes")
            => /\ upg[r].status = PRECONDITION_FAILED
               /\ upg[r].message = MsgRunning
               /\ task[r].st = "none"

\* C4 amended: a trigger request whose compare-and-exchange executes while
\* the gate is Upgrading is answered 412 "a full upgrade is currently
\* running", leaves the gate Upgrading and launches nothing.
C4_CasWhileUpgradingRejected ==
    [][\A r \in UpgradeReqs :
          (upg[r].pc = "cas" /\ upg'[r].pc # "cas" /\ is_upgrading)
              => /\ upg'[r].pc = "done"
                 /\ upg'[r].status = PRECONDITION_FAILED
                 /\ upg'[r].message = MsgRunning
                 /\ is_upgrading' = TRUE
                 /\ task' = task]_vars

\* C4 witness: a request rejected as "currently running" while the upgrade
\* that holds the gate is still in flight.
C4_Witness ==
    \E r1, r2 \in UpgradeReqs :
        /\ r2 \in Rejected
        /\ upg[r2].gate_on_arrival
        /\ r1 \in InFlight
        /\ is_upgrading

StatusStep(s) == StatusLoad(s) \/ StatusProbe(s) \/ StatusEnumerate(s)

\* C5: no step of a status request changes the gate (nor anything of the
\* upgrade requests and tasks), whatever its outcome, and a status request
\* never waits for an upgrade: while one is in flight, a request being handled
\* can take its next step and a new one can start.
C5_StatusPureReader ==
    /\ [][(\E s \in StatusReqs : StatusStep(s))
            => (is_upgrading' = is_upgrading /\ task' = task /\ upg' = upg)]_vars
    /\ [](InFlight # {} => (/\ ENABLED StatusStep(1)
                              /\ \A s \in StatusReqs :
                                    stat[s].pc # "idle" => ENABLED StatusStep(s)))

\* C5 witness: a status request that began after the gate was taken has been
\* answered with is_upgrading = true while the upgrade is still in flight.
C5_Witness ==
    \E s \in StatusReqs :
        /\ stat[s].pc = "done"
        /\ stat[s].resp.status = StatusOK
        /\ stat[s].gate_seen = {TRUE}
        /\ stat[s].resp.is_upgrading
        /\ InFlight # {}

\* C6: when the probe fails, status answers 412 with the fixed message, no
\* outdated packages, and is_upgrading equal to the gate value the request
\* read, a value the gate held during the request.
C6_StatusUnavailable ==
    \A s \in StatusReqs :
        stat[s].avail = "no"
            => /\ stat[s].pc = "done"
               /\ stat[s].resp.status = PRECONDITION_FAILED
               /\ stat[s].resp.message = MsgNotDebian
               /\ stat[s].resp.updates = <<>>
               /\ stat[s].resp.is_upgrading \in stat[s].gate_seen
               /\ (stat[s].gate_seen = {is_upgrading}
                     => stat[s].resp.is_upgrading = is_upgrading)

\* C6 witness: an unavailable status answer that reports is_upgrading = true
\* while the upgrade is in flight.
C6_Witness ==
    \E s \in StatusReqs :
        /\ stat[s].avail = "no"
        /\ stat[s].resp.is_upgrading
        /\ stat[s].gate_seen = {TRUE}
        /\ InFlight # {}

\* C7: when the package manager is unavailable, the trigger is answered 412
\* with the fixed message by the availability check itself, which comes before
\* the compare-and-exchange: the gate and the tasks are unchanged and the
\* request launches nothing.
C7_UpgradeUnavailable ==
    /\ [](\A r \in UpgradeReqs :
            upg[r].avail = "no"
                => /\ upg[r].pc = "done"
                   /\ upg[r].status = PRECONDITION_FAILED
                   /\ upg[r].message = MsgNotDebian
                   /\ task[r].st = "none")
    /\ [](\A r \in UpgradeReqs : upg[r].avail = "unknown" => r \notin Acquired)
    /\ [][\A r \in UpgradeReqs :
            (upg[r].pc = "probe" /\ upg'[r].avail = "no")
                => (is_upgrading' = is_upgrading /\ task' = task)]_vars

\* C7 witness: an unavailable trigger answered while another request's
\* upgrade holds the gate.
C7_Witness ==
    \E r \in UpgradeReqs :
        /\ upg[r].avail = "no"
        /\ upg[r].gate_on_arrival
        /\ is_upgrading
        /\ InFlight # {}

\* ------------------------------------------------------------ collectors
\* The identities (instance names) of which a resolved event has been received.
SeenIdentities == {n \in Names : first_info[n] # NoInfo}

\* C8, the discover table: each identity has at most one row, the row of its
\* first resolved event, and an event that brings no new identity changes
\* neither the table, the addresses nor the seen-set, and is no error.
C8_TableDedup ==
    /\ [](cmd = "discover" =>
            /\ \A i, j \in 1..Len(table) : i # j => table[i].instance # table[j].instance
            /\ \A i \in 1..Len(table) : table[i] = Row(first_info[table[i].instance])
            /\ seen = {FullName(n) : n \in SeenIdentities})
    /\ [][(cmd = "discover" /\ nrecv' # nrecv /\ first_info' = first_info)
            => UNCHANGED <<seen, table, discovered_addresses, header_printed, result, cpc>>]_vars

\* C8, the collector feeding status --all: each identity is in the output at
\* most once, and an event that brings no new identity changes neither the
\* output nor the seen-set.
C8_TargetsDedup ==
    /\ [](cmd = "status" =>
            \A i, j \in 1..Len(target_from) : i # j => target_from[i] # target_from[j])
    /\ [][(cmd = "status" /\ nrecv' # nrecv /\ first_info' = first_info)
            => UNCHANGED <<seen, targets, result, cpc>>]_vars

\* C8: for any sequence of resolved events with repeated identities, the
\* output of both collectors holds each identity at most once, the first-seen
\* instance, and a repeated resolved event changes neither output nor seen-set.
C8_DedupByIdentity == C8_TableDedup /\ C8_TargetsDedup

\* C9: the collection ends no later than the deadline start + T: the clock
\* never passes the deadline while collecting, every wait is bounded by the
\* remaining time, at now >= deadline the loop exits without receiving, the
\* collector can always take a step, and a wait that times out ends the
\* collection normally.
C9_TimeoutBound ==
    /\ [](cpc # "start" => (now <= deadline /\ (result[1] # "Err" => deadline = timeout)))
    /\ [](loop_exit = "timeout" =>
            (now = deadline /\ result[1] # "Err" /\ cpc \in {"after_loop", "dispatch", "done"}))
    /\ [](cpc = "loop" => ENABLED DiscoverNext)
    /\ [][cpc = "loop" => now' - now <= deadline - now]_vars
    /\ [][(cpc = "loop" /\ now >= deadline)
            => (cpc' # "loop" /\ loop_exit' = "deadline" /\ nrecv' = nrecv /\ now' = now)]_vars

\* C9 witness: after events were received the last wait timed out at the
\* deadline and the command went on normally.
C9_Witness ==
    /\ loop_exit = "timeout"
    /\ timeout > 1
    /\ nrecv > 1
    /\ now = deadline
    /\ result[1] # "Err"

\* C10: when the event channel is disconnected before the deadline the
\* collector stops and the command fails with the disconnection error; it does
\* not go on as after a normal end of collection.
C10_DisconnectFails ==
    loop_exit = "disconnected"
        => /\ cpc = "done"
           /\ result \in {<<"Err", "browse: receiver disconnected">>,
                          <<"Err", "mDNS error: disconnected">>}
           /\ ~config_saved

\* C10 witness: a disconnection before the deadline, entries already collected.
C10_Witness ==
    /\ loop_exit = "disconnected"
    /\ now < deadline
    /\ table # <<>> \/ targets # <<>>
    /\ result[1] = "Err"

\* ------------------------------------------------------------- resolver
\* The rules of the resolver as the contract words them, on the position of
\* the last colon; Bracketed(host) says when a host counts as bracketed.
LastColon(s) == CHOOSE i \in 1..Len(s) : s[i] = ":" /\ \A j \in (i + 1)..Len(s) : s[j] # ":"

\* "with trailing slash stripped": the longest prefix that does not end in "/".
SlashStripped(s) ==
    LET n == CHOOSE k \in 0..Len(s) :
                 /\ IF k = 0 THEN TRUE ELSE s[k] # "/"
                 /\ \A j \in (k + 1)..Len(s) : s[j] = "/"
    IN SubSeq(s, 1, n)

ThreeRules(s, Bracketed(_)) ==
    IF (Len(s) >= 7 /\ SubSeq(s, 1, 7) = HTTP) \/ (Len(s) >= 8 /\ SubSeq(s, 1, 8) = HTTPS)
    THEN SlashStripped(s)
    ELSE IF (\E i \in 1..Len(s) : s[i] = ":")
              /\ \A j \in (LastColon(s) + 1)..Len(s) : is_ascii_digit(s[j])
         THEN LET host == SubSeq(s, 1, LastColon(s) - 1)
                  port == SubSeq(s, LastColon(s) + 1, Len(s))
              IN IF (\E i \in 1..Len(host) : host[i] = ":") /\ ~Bracketed(host)
                 THEN HTTP \o <<"[">> \o host \o <<"]">> \o <<":">> \o port
                 ELSE HTTP \o host \o <<":">> \o port
         ELSE HTTP \o SlashStripped(s)

\* A host enclosed in square brackets.
EnclosedInBrackets(h) == Len(h) >= 2 /\ h[1] = "[" /\ h[Len(h)] = "]"

\* A host that begins with an opening square bracket.
OpensWithBracket(h) == Len(h) >= 1 /\ h[1] = "["

\* The five documented resolutions.
ExamplesResolved ==
    url # <<>> =>
        /\ raw = Ex_host_port => url = HTTP \o Ex_host_port
        /\ raw = Ex_bracketed => url = HTTP \o Ex_bracketed
        /\ raw = Ex_ipv6 =>
              url = HTTP \o <<"[", "f", "e", "8", "0", ":", ":", "1", "]", ":", "8", "0", "8", "0">>
        /\ raw = Ex_https => url = HTTPS \o <<"h">>
        /\ raw = Ex_plain => url = HTTP \o Ex_plain

\* C11 as stated: resolve(raw) follows the three rules in order for every
\* input string: a string with an http(s) scheme is returned with the trailing
\* slash stripped; else, with a colon and only digits after the last colon, it
\* is http://host:port, the host wrapped in square brackets when it contains a
\* colon and is not already bracketed (enclosed in brackets); else it is
\* http:// followed by raw with the trailing slash stripped; the five
\* documented examples resolve as documented.
C11_ResolveThreeRules ==
    /\ url # <<>> => url = ThreeRules(raw, EnclosedInBrackets)
    /\ ExamplesResolved

\* C11 amended: the same three rules, the host being wrapped in square
\* brackets when it contains a colon and does not begin with "[" (a host that
\* begins with "[" is left as it is, closed or not); the five documented
\* examples resolve as documented.
C11_ResolveBracketByPrefix ==
    /\ url # <<>> => url = ThreeRules(raw, OpensWithBracket)
    /\ ExamplesResolved

\* C11 witness: a host:port string whose host contains a colon and begins
\* with "[" without being closed has been resolved, and was not wrapped.
C11_Witness ==
    /\ url # <<>>
    /\ ~starts_with(raw, HTTP) /\ ~starts_with(raw, HTTPS)
    /\ contains(raw, ":")
    /\ LastColon(raw) < Len(raw)
    /\ \A j \in (LastColon(raw) + 1)..Len(raw) : is_ascii_digit(raw[j])
    /\ contains(SubSeq(raw, 1, LastColon(raw) - 1), ":")
    /\ raw[1] = "["
    /\ raw[LastColon(raw) - 1] # "]"
    /\ url = HTTP \o raw

\* -------------------------------------------------------------- fan-out
\* The path and the fallback body of the command's action.
ActionPath ==
    IF cmd = "status"
    THEN <<"/", "s", "t", "a", "t", "u", "s">>
    ELSE <<"/", "p", "a", "c", "k", "a", "g", "e", "s", "/",
           "f", "u", "l", "l", "-", "u", "p", "g", "r", "a", "d", "e">>

ActionFallback ==
    IF cmd = "status"
    THEN "Could not parse response as JSON"
    ELSE "Upgrade triggered successfully"

Lines(out) == {out[i] : i \in 1..Len(out)}

\* The collector behind --all failed: run_status returned its error.
DiscoveryFailed ==
    result \in {<<"Err", "create resolver">>, <<"Err", "browse">>,
                <<"Err", "mDNS error: disconnected">>}

\* C12: once the batch of N targets has started, whatever subset of the
\* requests fails at transport level: one request is sent per target, in input
\* order, a failed target is followed by the attempts of all the remaining
\* ones, the report holds N outcomes in input order, the error label is
\* carried by exactly the failed targets, and the outcome of every other target
\* is the one its own response determines (the rows already written are never
\* changed by a later failure); the run ends with success.
C12_FanOutIsolation ==
    /\ [](tw # <<>> =>
            /\ dispatch_targets # <<>>
            /\ Len(requests) = Len(outcomes)
            /\ Len(tw) = Len(outcomes) + 1
            /\ Len(outcomes) <= Len(dispatch_targets)
            /\ \A i \in 1..Len(outcomes) :
                  /\ requests[i].url = resolve_url(dispatch_targets[i]) \o ActionPath
                  /\ requests[i].method = (IF cmd = "status" THEN "GET" ELSE "POST")
                  /\ tw[i + 1][2].target = dispatch_targets[i]
                  /\ (tw[i + 1][2].status = <<"Error">>) <=> (~outcomes[i].ok)
                  /\ outcomes[i].ok =>
                        /\ tw[i + 1][2].status = <<"status", outcomes[i].status>>
                        /\ tw[i + 1][2].body =
                              (IF outcomes[i].json THEN "json" ELSE ActionFallback)
            /\ (cpc \in {"flush", "done"}) => Len(outcomes) = Len(dispatch_targets)
            /\ cpc = "done" => (result = <<"Ok">> /\ stdout = tw)
            /\ cpc \in {"fanout", "flush", "done"})
    /\ [][tw # <<>> =>
            \/ tw' = tw
            \/ /\ Len(tw') = Len(tw) + 1
               /\ SubSeq(tw', 1, Len(tw)) = tw
               /\ Len(requests') = Len(requests) + 1
               /\ SubSeq(requests', 1, Len(requests)) = requests]_vars

\* C12 witness: three targets, the first unreachable, the other two attempted
\* after it and answered; three outcomes are printed.
C12_Witness ==
    /\ cpc = "done"
    /\ Len(dispatch_targets) = 3
    /\ Len(requests) = 3
    /\ ~outcomes[1].ok /\ outcomes[2].ok /\ outcomes[3].ok
    /\ Len(stdout) = 4
    /\ stdout[2][2].status = <<"Error">>
    /\ stdout[3][2].status = <<"status", StatusOK>>

\* C13: when the list is empty after the explicit, discovered and configured
\* targets are merged, the run prints "No targets found.", sends no request,
\* prints no report table and returns success; the "no targets" line is
\* printed in no other case.
C13_EmptyTargetList ==
    /\ [][(cpc = "dispatch" /\ cpc' # "dispatch" /\ dispatch_targets' = <<>>)
            => /\ cpc' = "done"
               /\ result' = <<"Ok">>
               /\ stdout' = Append(stdout, Line(MsgNoTargets))
               /\ requests' = <<>>
               /\ tw' = <<>>]_vars
    /\ [](Line(MsgNoTargets) \in Lines(stdout)
            => /\ cpc = "done"
               /\ result = <<"Ok">>
               /\ dispatch_targets = <<>>
               /\ requests = <<>>
               /\ tw = <<>>
               /\ Line(ReportHeader) \notin Lines(stdout))
    /\ []((cpc = "done" /\ cmd # "discover" /\ dispatch_targets = <<>> /\ ~DiscoveryFailed)
            => Line(MsgNoTargets) \in Lines(stdout))

\* C13 witness: status --all found nothing, nothing was supplied and nothing
\* is configured: the "no targets" result.
C13_Witness ==
    /\ cmd = "status"
    /\ discover_all
    /\ cpc = "done"
    /\ targets = <<>>
    /\ config = <<>>
    /\ config_exists
    /\ stdout = <<Line(MsgNoTargets)>>
    /\ result = <<"Ok">>

\* C14: the credential header is on a target's request exactly when a
\* credential is configured for a node whose address equals the literal target
\* string; a target that only resolves to a configured node's base URL gets
\* none, and the credential is never that of a node with another address.
C14_CredentialByLiteralTarget ==
    \A i \in 1..Len(requests) :
        /\ (requests[i].api_key # "none")
              <=> (\E k \in 1..Len(config) :
                      /\ config[k].address = dispatch_targets[i]
                      /\ config[k].api_key # "none")
        /\ requests[i].api_key # "none"
              => \E k \in 1..Len(config) :
                    /\ config[k].address = dispatch_targets[i]
                    /\ config[k].api_key = requests[i].api_key

\* C15: every run of status or packages attempts every target and prints a
\* complete report, status --all included (every explicitly supplied target
\* is attempted in every run); a run fails only on a whole-operation failure,
\* never because targets failed.
C15_EveryTargetAttempted ==
    (cpc = "done" /\ cmd # "discover")
        => /\ Len(requests) = Len(dispatch_targets)
           /\ \A i \in 1..Len(dispatch_targets) :
                 requests[i].url = resolve_url(dispatch_targets[i]) \o ActionPath
           /\ dispatch_targets # <<>> => stdout = tw /\ Len(tw) = Len(dispatch_targets) + 1
           /\ (\E i \in 1..Len(outcomes) : ~outcomes[i].ok) => result = <<"Ok">>

\* C16, discover: a run that finds nothing succeeds and says so.
C16_DiscoverReportsNone ==
    (cmd = "discover" /\ cpc = "done" /\ table = <<>> /\ result[1] # "Err")
        => /\ result = <<"Ok">>
           /\ Line(MsgNoDaemons) \in Lines(stdout)
           /\ Line(MsgNoTargets) \notin Lines(stdout)

\* C16, status --all: a collection that finds nothing is no error, and the
\* run's output is not the one of a run to which the user supplied no targets.
C16_StatusAllReportsNone ==
    (cmd = "status" /\ discover_all /\ cpc = "done" /\ targets = <<>> /\ ~DiscoveryFailed
        /\ result[1] # "Err")
        => /\ result = <<"Ok">>
           /\ Line(MsgNoTargets) \notin Lines(stdout)

\* C16: a discovery run that finds zero entries is not an error and is
\* reported distinctly from "no targets supplied by the user" at both call
\* sites of the collector, the discover command and status --all.
C16_ZeroEntriesDistinct == C16_DiscoverReportsNone /\ C16_StatusAllReportsNone

\* ------------------------------------------------------------- shutdown
\* The server leaves "serving" only after a signal was delivered.
StopsOnlyAfterSignal == [](server # "serving" => delivered # {})

\* Once the shutdown has begun no request is accepted, the serve future
\* completes only with no request in flight, and the advertisement is
\* unregistered only after that, never while a request is being served.
ShutdownOrdered ==
    /\ [][server # "serving" => in_flight' <= in_flight]_vars
    /\ [][server' # server
            => \/ server = "serving" /\ server' = "draining"
               \/ server = "draining" /\ server' = "returned" /\ in_flight = 0]_vars
    /\ [](server = "returned" => in_flight = 0)
    /\ [](mdns_daemon = "shutdown" => (server = "returned" /\ in_flight = 0))
    /\ [](exited => server = "returned")

\* C17: the daemon's shutdown is ordered: the server stops only after an
\* interrupt or termination signal, then accepts no new connection, then lets
\* the requests in flight complete, and only then unregisters the service
\* advertisement, never while a request is still being served.
C17_OrderedShutdown == StopsOnlyAfterSignal /\ ShutdownOrdered

\* ------------------------------------------------------ gate and upgrade
\* The requests that hold the gate: from the successful compare-and-exchange
\* to the store(false) of the background task.
Holding == {r \in UpgradeReqs : upg[r].pc = "spawn" \/ task[r].st \in {"running", "returned"}}

\* C18: the gate starts false and is true exactly while an upgrade is in
\* flight, from the successful compare-and-exchange to the completion of the
\* background operation; after a trigger was answered 200 and before its
\* upgrade completes the gate is true, a status request that reads it then
\* holds is_upgrading = true and its response reports that value.
C18_GateTrueWhileInFlight ==
    /\ is_upgrading = FALSE
    /\ [](is_upgrading <=> Holding # {})
    /\ [](\A r \in UpgradeReqs :
            (upg[r].pc = "done" /\ upg[r].status = StatusOK /\ task[r].st # "finished")
                => is_upgrading)
    /\ [][\A s \in StatusReqs :
            (stat[s].pc \in {"idle", "done"} /\ stat'[s].pc = "probe")
                => stat'[s].is_upgrading = (Holding # {})]_vars
    /\ [](\A s \in StatusReqs :
            stat[s].pc = "done" => stat[s].resp.is_upgrading = stat[s].is_upgrading)

\* C18 witness: a trigger was answered 200, its command is still running, and
\* a status request that started after the 200 has answered is_upgrading = true.
C18_Witness ==
    \E r \in UpgradeReqs : \E s \in StatusReqs :
        /\ upg[r].pc = "done"
        /\ upg[r].status = StatusOK
        /\ task[r].st = "running"
        /\ is_upgrading
        /\ stat[s].pc = "done"
        /\ stat[s].gate_seen = {TRUE}
        /\ stat[s].resp.is_upgrading

\* C19: a successful trigger does not wait for the upgrade: the handler that
\* acquired the gate spawns the background task and returns 200 in the same
\* step, while the command has not returned; its step is never blocked, and
\* every routed request is answered even if no command ever returns.
C19_TriggerDoesNotWait ==
    /\ [][\A r \in UpgradeReqs :
            (upg[r].pc = "spawn" /\ upg'[r].pc # "spawn")
                => /\ upg'[r].pc = "done"
                   /\ upg'[r].status = StatusOK
                   /\ task[r].st = "none"
                   /\ task'[r].st = "running"]_vars
    /\ [](\A r \in UpgradeReqs :
            upg[r].status = StatusOK => task[r].st # "none")
    /\ [](\A r \in UpgradeReqs : upg[r].pc = "spawn" => ENABLED UpgradeSpawn(r))
    /\ \A r \in UpgradeReqs : UpgradeActive(r) ~> (upg[r].pc = "done")

\* C19 witness: the 200 is out and the command it launched is still running,
\* while a later request has already been rejected.
C19_Witness ==
    \E r, q \in UpgradeReqs :
        /\ upg[r].pc = "done"
        /\ upg[r].message = MsgTriggered
        /\ task[r].st = "running"
        /\ q \in Rejected
        /\ ~upg[q].concurrent

\* ---------------------------------------------------------- arrival order
IsPrefix(a, b) == Len(a) <= Len(b) /\ SubSeq(b, 1, Len(a)) = a

\* The events that are no ServiceResolved.
OtherEvents == {e \in ServiceEvents : e.type # "ServiceResolved"}

\* The identities whose first resolved event arrives in this step.
FirstSights == {n \in Names : first_info[n] = NoInfo /\ first_info'[n] # NoInfo}

\* The discover table grows only at its end, by the row of the identity whose
\* first resolved event has just arrived, and its addresses follow the rows;
\* an event that is no ServiceResolved changes neither the table, the
\* addresses nor the seen-set, and leaves the collection running.
TableArrivalOrder ==
    /\ [][(cmd = "discover" /\ table' # table)
            => \E n \in FirstSights :
                  /\ table' = Append(table, Row(first_info'[n]))
                  /\ seen' = seen \cup {FullName(n)}
                  /\ IsPrefix(discovered_addresses, discovered_addresses')]_vars
    /\ [][(cmd = "discover" /\ FirstSights # {}) => Len(table') = Len(table) + 1]_vars
    /\ [][\A e \in OtherEvents :
            (cmd = "discover" /\ nrecv' # nrecv /\ RunDiscoverHandle(e))
                => (UNCHANGED <<seen, table, discovered_addresses, result>>
                        /\ cpc' = "loop")]_vars

\* The output of discover_targets grows only at its end, by entries of the
\* identity whose first resolved event has just arrived; an event that is no
\* ServiceResolved changes neither the output nor the seen-set, and leaves the
\* collection running.
TargetsArrivalOrder ==
    /\ [][(cmd = "status" /\ cpc = "loop" /\ targets' # targets)
            => /\ IsPrefix(targets, targets')
               /\ \E n \in FirstSights :
                     \A i \in (Len(targets) + 1)..Len(targets') :
                         target_from'[i] = FullName(n)]_vars
    /\ [][\A e \in OtherEvents :
            (cmd = "status" /\ cpc = "loop" /\ nrecv' # nrecv /\ DiscoverTargetsHandle(e))
                => (UNCHANGED <<seen, targets, result>> /\ cpc' = "loop")]_vars

\* The output of discover_targets is never reordered or shortened while the
\* events arrive, whichever event adds to it.
TargetsAppendOnly ==
    [][(cmd = "status" /\ cpc = "loop" /\ cpc' = "loop") => IsPrefix(targets, targets')]_vars

\* C20: both collectors emit their entries in the arrival order of the
\* first-sight resolved events, with no re-sorting, so that the output is the
\* subsequence of first occurrences in order; events other than
\* ServiceResolved add nothing to the output or the seen-set and do not end
\* the collection.
C20_ArrivalOrder == TableArrivalOrder /\ TargetsArrivalOrder

\* ------------------------------------------------------- the discover report
\* The rows of the report are in the order of their instance names.
SortedByInstance(rows) ==
    \A i, j \in 1..Len(rows) : i < j => rows[i].instance <= rows[j].instance

\* C21: the report of a completed discover run shows its rows sorted by
\* instance name, whatever the order in which the resolved events arrived.
C21_ReportSortedByInstance ==
    (cmd = "discover" /\ cpc = "done" /\ result = <<"Ok">>) => SortedByInstance(table)

\* ------------------------------------------------------------ port selection
\* The search has ended: a listener is bound, or main has returned the error.
PortSettled == bpc \in {"listening", "failed"}

\* C22: with no port configured the daemon binds the ports upward from 8080,
\* one call each, and listens on the smallest port >= 8080 that can be bound;
\* the search terminates, and fails, the 16-bit counter never wrapping, when
\* 65535 cannot be bound either. With a port configured, that port is the only
\* one tried and a failure to bind it is fatal.
C22_PortSelection ==
    /\ [](http_port \in 0..U16_MAX)
    /\ []((cli_port = <<>> /\ bpc = "listening")
            => /\ http_port >= DEFAULT_HTTP_PORT
               /\ ~InUse(http_port)
               /\ \A q \in DEFAULT_HTTP_PORT..(http_port - 1) : InUse(q)
               /\ binds = http_port - DEFAULT_HTTP_PORT + 1)
    /\ []((cli_port = <<>> /\ bpc = "failed")
            => /\ http_port = U16_MAX
               /\ \A q \in DEFAULT_HTTP_PORT..U16_MAX : InUse(q)
               /\ binds = U16_MAX - DEFAULT_HTTP_PORT + 1)
    /\ [][(bpc = "hunting" /\ http_port' # http_port)
            => (http_port' = http_port + 1 /\ InUse(http_port))]_vars
    /\ []((cli_port # <<>> /\ bpc # "start")
            => /\ http_port = cli_port[1]
               /\ binds = 1
               /\ bpc = IF InUse(cli_port[1]) THEN "failed" ELSE "listening")
    /\ [][PortSettled => UNCHANGED portVars]_vars
    /\ <>PortSettled

\* C22 witness: every port from 8080 to 65535 was tried in turn and the search
\* has failed at 65535.
C22_Witness ==
    /\ cli_port = <<>>
    /\ bpc = "failed"
    /\ http_port = U16_MAX
    /\ binds = U16_MAX - DEFAULT_HTTP_PORT + 1

\* ------------------------------------------------------ responses and gate
\* C23: each trigger request is answered once, with 200 or 412; the upgrade
\* operations launched are those of the requests answered 200; a 200 comes
\* only from the request whose compare-and-exchange moved the gate from Idle
\* to Upgrading; a request answered 412 launches nothing; the gate goes back
\* to Idle only in the background task of a request that acquired it, never
\* in a rejected request or in the status handler.
C23_ResponsesMatchLaunches ==
    /\ [](\A r \in UpgradeReqs :
            IF upg[r].pc = "done"
            THEN upg[r].status \in {StatusOK, PRECONDITION_FAILED}
            ELSE upg[r].status = 0)
    /\ [][\A r \in UpgradeReqs : upg[r].pc = "done" => upg'[r] = upg[r]]_vars
    /\ [](Launched = Answered(StatusOK))
    /\ [][\A r \in UpgradeReqs :
            (upg[r].status # StatusOK /\ upg'[r].status = StatusOK)
                => upg[r].pc = "spawn"]_vars
    /\ [][\A r \in UpgradeReqs :
            (upg[r].pc # "spawn" /\ upg'[r].pc = "spawn")
                => (upg[r].pc = "cas" /\ ~is_upgrading /\ is_upgrading')]_vars
    /\ [][(~is_upgrading /\ is_upgrading')
            => \E r \in UpgradeReqs : upg[r].pc = "cas" /\ upg'[r].pc = "spawn"]_vars
    /\ [](\A r \in UpgradeReqs :
            upg[r].status = PRECONDITION_FAILED => task[r].st = "none")
    /\ [][(is_upgrading /\ ~is_upgrading')
            => /\ \E r \in Answered(StatusOK) :
                     task[r].st = "returned" /\ task'[r].st = "finished"
               /\ upg' = upg
               /\ \A s \in StatusReqs : stat'[s].pc = stat[s].pc]_vars

\* C23 witness: one request was answered 200 and its upgrade is over, the gate
\* is Idle again, and the other request was rejected with 412 meanwhile.
C23_Witness ==
    \E r, q \in UpgradeReqs :
        /\ Answered(StatusOK) = {r}
        /\ Launched = {r}
        /\ task[r].st = "finished"
        /\ q \in Rejected
        /\ task[q].st = "none"
        /\ ~is_upgrading

\* ------------------------------------------------------ the status snapshot
\* C24: the is_upgrading of a status response is the gate value loaded once,
\* as the first step of the request, before the probe and the enumeration; it
\* is never loaded again, the response carries it, and it is a value the gate
\* held at some instant of the request's lifetime.
C24_StatusSnapshot ==
    /\ [][\A s \in StatusReqs :
            (~StatusActive(s) /\ stat'[s] # stat[s])
                => /\ stat'[s].pc = "probe"
                   /\ stat'[s].avail = "unknown"
                   /\ stat'[s].is_upgrading = is_upgrading]_vars
    /\ [][\A s \in StatusReqs :
            StatusActive(s) => stat'[s].is_upgrading = stat[s].is_upgrading]_vars
    /\ [][\A s \in StatusReqs :
            (StatusActive(s) /\ stat'[s].pc = "done")
                => stat'[s].resp.is_upgrading = stat[s].is_upgrading]_vars
    /\ [](\A s \in StatusReqs :
            stat[s].pc = "done" => stat[s].resp.is_upgrading \in stat[s].gate_seen)

\* C24 witness: the only upgrade ever launched started during the status
\* request and has not finished, so the gate was true when the response was
\* sent, and the response says is_upgrading = false.
C24_Witness ==
    \E s \in StatusReqs :
        /\ stat[s].pc = "done"
        /\ stat[s].resp.status = StatusOK
        /\ stat[s].resp.is_upgrading = FALSE
        /\ stat[s].gate_seen = {FALSE, TRUE}
        /\ Cardinality(Launched) = 1
        /\ Finished = {}
        /\ is_upgrading

\* The other direction: the upgrade in flight when the request read the gate
\* finished during the request, no other was started, and the response says
\* is_upgrading = true.
StaleTrueSnapshot ==
    \E s \in StatusReqs :
        /\ stat[s].pc = "done"
        /\ stat[s].resp.is_upgrading = TRUE
        /\ stat[s].gate_seen = {FALSE, TRUE}
        /\ Cardinality(Launched) = 1
        /\ Cardinality(Finished) = 1
        /\ \A r \in UpgradeReqs : upg[r].pc # "spawn"
        /\ ~is_upgrading

\* ------------------------------------------------------------- idempotence
\* The base URL carries a scheme.
HasScheme(u) == starts_with(u, HTTP) \/ starts_with(u, HTTPS)

\* Resolving a base URL again gives the same base URL.
Idempotent(u) == resolve_url(u) = u

\* C25: resolve is idempotent: for every input, the empty string, "/" and the
\* strings ending in a colon included, resolving the result again gives the
\* same result, and the result starts with http:// or https://.
C25_ResolveIdempotent ==
    url # <<>> => (Idempotent(url) /\ HasScheme(url))

\* Where idempotence holds: every result that is more than a scheme ("http:",
\* "https:") followed by slashes.
IdempotentOffBareScheme ==
    (url # <<>> /\ trim_end_matches(url, "/") \notin {SubSeq(HTTP, 1, 5), SubSeq(HTTPS, 1, 6)})
        => (Idempotent(url) /\ HasScheme(url))

\* --------------------------------------------------------- --update-config
\* The addresses of a sequence of nodes.
AddressesIn(nodes) == {nodes[i].address : i \in 1..Len(nodes)}

\* The elements of a sequence.
Range(seq) == {seq[i] : i \in 1..Len(seq)}

\* The step of run_discover after the loop, with --update-config.
UpdateStep == cmd = "discover" /\ update_config /\ cpc = "after_loop" /\ cpc' = "done"

\* C26: discover --update-config only appends: the nodes of the configuration
\* are kept, unchanged and in place; each discovered addr:port that was not
\* present is appended exactly once, also when several discovered entries
\* share it; the file is written only when a node was added; merging the same
\* discovery result into the outcome again changes nothing. Nothing else
\* changes the configuration.
C26_UpdateConfigOnlyAppends ==
    /\ [][UpdateStep
            => /\ IsPrefix(config, config')
               /\ \A i \in (Len(config) + 1)..Len(config') :
                     /\ config'[i] = NodeConfig(config'[i].address, "none")
                     /\ config'[i].address \in Range(discovered_addresses)
                     /\ \A j \in 1..Len(config') : j # i => config'[j].address # config'[i].address
               /\ Range(discovered_addresses) \subseteq AddressesIn(config')
               /\ config_saved' = (Len(config') > Len(config))
               /\ MergeDiscovered(config', discovered_addresses) = config']_vars
    /\ [][(config' # config \/ config_saved' # config_saved) => UpdateStep]_vars

\* C26 witness: the file held a node with a key; the discovery brought its
\* address again and a new address twice; the file was written with the old
\* node in place and one new node.
C26_Witness ==
    /\ cmd = "discover"
    /\ cpc = "done"
    /\ config_saved
    /\ Len(config) = 2
    /\ config[1].api_key = "key1"
    /\ config[1].address \in Range(discovered_addresses)
    /\ \E i, j \in 1..Len(discovered_addresses) :
          i # j /\ discovered_addresses[i] = discovered_addresses[j]
                /\ discovered_addresses[i] = config[2].address

\* C27: a discover --update-config run that fails on a disconnected channel
\* leaves the configuration exactly as it was, whatever was discovered and
\* displayed before: the failing step changes neither the configuration nor
\* the file, returns the error, and no step follows it.
C27_DisconnectKeepsConfig ==
    /\ [][(cmd = "discover" /\ loop_exit' = "disconnected")
            => (config' = config /\ config_saved' = config_saved)]_vars
    /\ []((cmd = "discover" /\ loop_exit = "disconnected")
            => /\ cpc = "done"
               /\ result = <<"Err", "browse: receiver disconnected">>
               /\ ~config_saved
               /\ config \in InitialConfigs)

\* C27 witness: a row was displayed, its address is not in the configuration,
\* and the run has failed on the disconnected channel.
C27_Witness ==
    /\ cmd = "discover"
    /\ update_config
    /\ loop_exit = "disconnected"
    /\ table # <<>>
    /\ Range(discovered_addresses) \ AddressesIn(config) # {}
    /\ ~config_saved

====
